---- MODULE Spec2Model ----
(***************************************************************************)
(* Model of the KPI extraction and validation pipeline.                    *)
(*                                                                         *)
(*   src/src/utlis/validation_utils.py   validate_kpi_data                 *)
(*   src/src/o3/kpi_agent.py             the extraction and verification   *)
(*                                       graphs and __main__               *)
(*   src/src/utlis/excel_to_csv_utils.py convert_excel_to_csv              *)
(*   src/src/kpi_extractor_agent.py,                                       *)
(*   src/src/utlis/file_processing_utils.py   the file coordinator         *)
(*                                                                         *)
(* Python strings are sequences of one-character strings, so that          *)
(* str.replace, str.strip, str.lower, float() and re.match are computed    *)
(* character by character.  Python numbers are exact decimals with twelve  *)
(* fractional digits, kept in three limbs (integer part, 1e-9 units,       *)
(* 1e-12 units) so that no limb leaves the 32-bit range of TLC integers.   *)
(* The values the model draws are chosen so that binary64 arithmetic and   *)
(* exact decimal arithmetic agree on every comparison made.                *)
(***************************************************************************)
EXTENDS Integers, Sequences, FiniteSets, TLC

\* ------------------------------------------------------------------------
\* Bounds of the model
\* ------------------------------------------------------------------------
MaxRecs == 2

MaxExtracted == 3

MaxTables == 2

MaxRows == 4

MaxChunkRows == 3

MaxFiles == 3

MaxSheetRows == 3

\* ------------------------------------------------------------------------
\* Python strings
\* ------------------------------------------------------------------------
Digits == <<"0", "1", "2", "3", "4", "5", "6", "7", "8", "9">>

UpperLetters == <<"A", "B", "C", "D", "E", "F", "G", "H", "I", "J", "K", "L", "M",
                  "N", "O", "P", "Q", "R", "S", "T", "U", "V", "W", "X", "Y", "Z">>

LowerLetters == <<"a", "b", "c", "d", "e", "f", "g", "h", "i", "j", "k", "l", "m",
                  "n", "o", "p", "q", "r", "s", "t", "u", "v", "w", "x", "y", "z">>

IsDigit(c) == \E i \in 1..10 : Digits[i] = c

DigitVal(c) == (CHOOSE i \in 1..10 : Digits[i] = c) - 1

\* str.lower() on one character
LowerChar(c) ==
    IF \E i \in 1..26 : UpperLetters[i] = c
    THEN LowerLetters[CHOOSE i \in 1..26 : UpperLetters[i] = c]
    ELSE c

\* str.lower()
Lower(s) == [i \in 1..Len(s) |-> LowerChar(s[i])]

\* s.replace(ch, "")
Remove(s, ch) == SelectSeq(s, LAMBDA c : c # ch)

IsSpace(c) == c = " "

RECURSIVE LStrip(_)
LStrip(s) == IF s # <<>> /\ IsSpace(Head(s)) THEN LStrip(Tail(s)) ELSE s

RECURSIVE RStrip(_)
RStrip(s) ==
    IF s # <<>> /\ IsSpace(s[Len(s)]) THEN RStrip(SubSeq(s, 1, Len(s) - 1)) ELSE s

\* str.strip()
Strip(s) == RStrip(LStrip(s))

\* s.endswith(ch)
EndsWith(s, ch) == s # <<>> /\ s[Len(s)] = ch

AllDigits(s) == \A i \in 1..Len(s) : IsDigit(s[i])

\* position of the first "." of s, or 0
DotPos(s) ==
    IF \E i \in 1..Len(s) : s[i] = "."
    THEN CHOOSE i \in 1..Len(s) : s[i] = "." /\ \A j \in 1..(i - 1) : s[j] # "."
    ELSE 0

\* re.match(r'^\d+(\.\d+)?$', s)
MatchesNumberRegex(s) ==
    LET d == DotPos(s) IN
    IF d = 0 THEN s # <<>> /\ AllDigits(s)
    ELSE /\ d > 1
         /\ d < Len(s)
         /\ AllDigits(SubSeq(s, 1, d - 1))
         /\ AllDigits(SubSeq(s, d + 1, Len(s)))

\* ------------------------------------------------------------------------
\* Python numbers: exact decimals  ip + nano * 1e-9 + pico * 1e-12
\* ------------------------------------------------------------------------
Dec(neg, ip, nano, pico) == [neg |-> neg, ip |-> ip, nano |-> nano, pico |-> pico]

DecZero == Dec(FALSE, 0, 0, 0)

DecInt(n) == IF n < 0 THEN Dec(TRUE, 0 - n, 0, 0) ELSE Dec(FALSE, n, 0, 0)

\* magnitude order
MagLess(a, b) ==
    \/ a.ip < b.ip
    \/ a.ip = b.ip /\ a.nano < b.nano
    \/ a.ip = b.ip /\ a.nano = b.nano /\ a.pico < b.pico

\* |a| - |b| for |a| >= |b|
MagSub(a, b) ==
    LET p0 == a.pico - b.pico
        bp == IF p0 < 0 THEN 1 ELSE 0
        n0 == a.nano - b.nano - bp
        bn == IF n0 < 0 THEN 1 ELSE 0
    IN  Dec(FALSE, a.ip - b.ip - bn, n0 + bn * 1000000000, p0 + bp * 1000)

\* |a| + |b|
MagAdd(a, b) ==
    LET p0 == a.pico + b.pico
        cp == IF p0 >= 1000 THEN 1 ELSE 0
        n0 == a.nano + b.nano + cp
        cn == IF n0 >= 1000000000 THEN 1 ELSE 0
    IN  Dec(FALSE, a.ip + b.ip + cn, n0 - cn * 1000000000, p0 - cp * 1000)

\* abs(a - b)
AbsDiff(a, b) ==
    IF a.neg = b.neg
    THEN IF MagLess(a, b) THEN MagSub(b, a) ELSE MagSub(a, b)
    ELSE MagAdd(a, b)

\* d < 1e-9 for a magnitude d
LessThanNano(d) == d.ip = 0 /\ d.nano = 0

\* d > 1e-9 for a magnitude d
MoreThanNano(d) == d.ip > 0 \/ d.nano > 1 \/ (d.nano = 1 /\ d.pico > 0)

RECURSIVE DigitsToInt(_)
DigitsToInt(s) ==
    IF s = <<>> THEN 0
    ELSE DigitsToInt(SubSeq(s, 1, Len(s) - 1)) * 10 + DigitVal(s[Len(s)])

RECURSIVE IntToDigits(_)
IntToDigits(n) ==
    IF n < 10 THEN <<Digits[n + 1]>>
    ELSE IntToDigits(n \div 10) \o <<Digits[(n % 10) + 1]>>

\* the first k characters of s, padded on the right with "0"
PadRight(s, k) == [i \in 1..k |-> IF i <= Len(s) THEN s[i] ELSE "0"]

\* the digits of n, padded on the left with "0" to k characters
PadLeft(n, k) ==
    LET d == IntToDigits(n) IN
    [i \in 1..k |-> IF i <= k - Len(d) THEN "0" ELSE d[i - (k - Len(d))]]

RECURSIVE TrimZeros(_)
TrimZeros(s) ==
    IF Len(s) > 1 /\ s[Len(s)] = "0" THEN TrimZeros(SubSeq(s, 1, Len(s) - 1)) ELSE s

\* ------------------------------------------------------------------------
\* Python values:  t is the type, s the characters of a str, n the number
\*   "none"  None            "str"   str           "int"   int
\*   "float" float           "nan"   float('nan')  "npint" numpy.int64
\*   "other" list, dict, ...
\* ------------------------------------------------------------------------
PyVal(t, s, n) == [t |-> t, s |-> s, n |-> n]

None == PyVal("none", <<>>, DecZero)

PyStr(s) == PyVal("str", s, DecZero)

PyInt(n) == PyVal("int", <<>>, DecInt(n))

PyFloat(d) == PyVal("float", <<>>, d)

PyNaN == PyVal("nan", <<>>, DecZero)

NpInt(n) == PyVal("npint", <<>>, DecInt(n))

PyOther == PyVal("other", <<>>, DecZero)

\* isinstance(v, str)
IsStr(v) == v.t = "str"

\* isinstance(v, int): numpy.int64 is no subclass of int
IsPyInt(v) == v.t = "int"

\* isinstance(v, (int, float)): numpy.float64 is a subclass of float
IsIntOrFloat(v) == v.t \in {"int", "float", "nan"}

\* the result of float(s):  k = "num" with the number n, "nan", or "err" for
\* ValueError.  Grammar: optional surrounding blanks, optional sign, digits
\* with an optional fraction, or nan.
FloatResult(k, n) == [k |-> k, n |-> n]

ParseFloat(s) ==
    LET t    == Strip(s)
        sgn  == t # <<>> /\ Head(t) \in {"+", "-"}
        neg  == t # <<>> /\ Head(t) = "-"
        body == IF sgn THEN Tail(t) ELSE t
        d    == DotPos(body)
        ipS  == IF d = 0 THEN body ELSE SubSeq(body, 1, d - 1)
        fpS  == IF d = 0 THEN <<>> ELSE SubSeq(body, d + 1, Len(body))
        frac == PadRight(fpS, 12)
    IN  IF Lower(body) = <<"n", "a", "n">> THEN FloatResult("nan", DecZero)
        ELSE IF /\ AllDigits(ipS)
                /\ AllDigits(fpS)
                /\ (ipS # <<>> \/ fpS # <<>>)
             THEN FloatResult("num",
                     Dec(neg, DigitsToInt(ipS),
                         DigitsToInt(SubSeq(frac, 1, 9)),
                         DigitsToInt(SubSeq(frac, 10, 12))))
             ELSE FloatResult("err", DecZero)

\* str(v)
Str(v) ==
    LET sign == IF v.n.neg THEN <<"-">> ELSE <<>> IN
    CASE v.t = "str"   -> v.s
      [] v.t = "int"   -> sign \o IntToDigits(v.n.ip)
      [] v.t = "npint" -> sign \o IntToDigits(v.n.ip)
      [] v.t = "float" -> sign \o IntToDigits(v.n.ip) \o <<".">>
                               \o TrimZeros(PadLeft(v.n.nano, 9) \o PadLeft(v.n.pico, 3))
      [] v.t = "nan"   -> <<"n", "a", "n">>
      [] v.t = "none"  -> <<"N", "o", "n", "e">>
      [] OTHER         -> <<"[", "]">>

\* value /= 100.0
DecDiv100(a) ==
    Dec(a.neg,
        a.ip \div 100,
        (a.ip % 100) * 10000000 + a.nano \div 100,
        (a.nano % 100) * 10 + a.pico \div 100)

\* kpi_agent.py _normalize_number_string: strip, drop "," and "$", drop a
\* trailing "%" and divide by 100; math.nan when float() raises
NormalizeNumberString(s) ==
    LET t    == Remove(Remove(Strip(s), ","), "$")
        pct  == EndsWith(t, "%")
        body == IF pct THEN SubSeq(t, 1, Len(t) - 1) ELSE t
        f    == ParseFloat(body)
    IN  IF f.k = "num" THEN FloatResult("num", IF pct THEN DecDiv100(f.n) ELSE f.n)
        ELSE FloatResult("nan", DecZero)

\* ------------------------------------------------------------------------
\* Records (Python dicts).  A key that is absent reads as None with .get();
\* validation_status = Absent says that the three keys the validator adds
\* are not in the dict.
\* ------------------------------------------------------------------------
Absent == "<absent>"

Rec(kpi, value, period, source_file, row_number, column_number) ==
    [kpi |-> kpi, value |-> value, period |-> period, source_file |-> source_file,
     row_number |-> row_number, column_number |-> column_number,
     validation_status |-> Absent, notes |-> <<>>, validated |-> FALSE]

NoRec == Rec(None, None, None, None, None, None)

\* one entry of a notes list: the message and the values formatted into it
Note(msg) == [msg |-> msg, expected |-> <<>>, got |-> <<>>, row |-> 0, col |-> 0]

MismatchNote(expected, got, row, col) ==
    [msg |-> "Value mismatch", expected |-> expected, got |-> got,
     row |-> row, col |-> col]

AtNote(msg, row, col) ==
    [msg |-> msg, expected |-> <<>>, got |-> <<>>, row |-> row, col |-> col]

\* ------------------------------------------------------------------------
\* Tier 1: structural validation of one record
\* ------------------------------------------------------------------------
\* not kpi_name or not isinstance(kpi_name, str) or not kpi_name.strip()
NameInvalid(v) == ~IsStr(v) \/ v.s = <<>> \/ Strip(v.s) = <<>>

\* kpi_value is None
ValueMissing(v) == v = None

\* mutant: the thousands separators are left in
StrValueBadKeepsCommas(s) == ParseFloat(s).k = "err"

\* float(kpi_value.replace(",", "")) raises ValueError
StrValueBad(s) == ParseFloat(Remove(s, ",")).k = "err"

\* mutant: the second value branch is an if, not an elif
ValueBadFormatNoElif(v) == IF IsStr(v) THEN StrValueBad(v.s) ELSE ~IsIntOrFloat(v)

\* the two "Value is not a valid number format." branches
ValueBadFormat(v) ==
    /\ v # None
    /\ IF IsStr(v) THEN StrValueBad(v.s) ELSE ~IsIntOrFloat(v)

\* row_number is None or not isinstance(row_number, int) or row_number <= 0
IndexInvalid(v) == v = None \/ ~IsPyInt(v) \/ v.n.neg \/ v.n.ip = 0

StructuralNotes(r) ==
       (IF NameInvalid(r.kpi) THEN <<Note("KPI name is missing or invalid.")>> ELSE <<>>)
    \o (IF ValueMissing(r.value) THEN <<Note("Value is missing.")>> ELSE <<>>)
    \o (IF ValueBadFormat(r.value)
        THEN <<Note("Value is not a valid number format.")>> ELSE <<>>)
    \o (IF NameInvalid(r.period) THEN <<Note("Period is missing or invalid.")>> ELSE <<>>)
    \o (IF IndexInvalid(r.row_number)
        THEN <<Note("Row number is missing or invalid.")>> ELSE <<>>)
    \o (IF IndexInvalid(r.column_number)
        THEN <<Note("Column number is missing or invalid.")>> ELSE <<>>)

StructuralStatus(r) ==
    IF \/ NameInvalid(r.kpi)
       \/ ValueMissing(r.value)
       \/ ValueBadFormat(r.value)
       \/ NameInvalid(r.period)
       \/ IndexInvalid(r.row_number)
       \/ IndexInvalid(r.column_number)
    THEN "INVALID_STRUCTURE"
    ELSE "Valid"

\* ------------------------------------------------------------------------
\* Source files.  A path is [base, ext]; the file behind it is
\* [loadable, sheets]: for a workbook, sheets is the sequence of worksheets,
\* each a rectangular grid (rows of cell values, None for an empty cell); for
\* a CSV file, sheets holds one grid of text cells whose first row is the
\* header line.
\* ------------------------------------------------------------------------
\* file_path_to_validate_against.endswith((".xlsx", ".xls"))
IsExcelPath(path) == path.ext \in {".xlsx", ".xls"}

NumRows(grid) == Len(grid)

NumCols(grid) == IF grid = <<>> THEN 0 ELSE Len(grid[1])

\* pandas.read_csv: the text of an integer / of a number
IsIntText(s) ==
    LET body == IF s # <<>> /\ Head(s) \in {"+", "-"} THEN Tail(s) ELSE s
    IN  body # <<>> /\ AllDigits(body)

IsNumText(s) == ParseFloat(s).k = "num"

\* pandas.read_csv: the dtype inferred for column j of the data rows
ColumnDtype(data, j) ==
    IF data # <<>> /\ \A i \in 1..Len(data) : IsIntText(data[i][j])
    THEN "int64"
    ELSE IF \A i \in 1..Len(data) : data[i][j] = <<>> \/ IsNumText(data[i][j])
         THEN "float64"
         ELSE "object"

\* pandas.read_csv: the value of one cell under its column's dtype
CsvCell(text, dtype) ==
    IF text = <<>> THEN PyNaN
    ELSE CASE dtype = "int64"   -> NpInt(ParseFloat(text).n.ip
                                         * (IF ParseFloat(text).n.neg THEN -1 ELSE 1))
           [] dtype = "float64" -> PyFloat(ParseFloat(text).n)
           [] OTHER             -> PyStr(text)

\* pd.read_csv(path): the rows of the DataFrame (the header line is not a row)
ReadCsv(raw) ==
    LET data == Tail(raw) IN
    [i \in 1..Len(data) |->
        [j \in 1..Len(data[i]) |-> CsvCell(data[i][j], ColumnDtype(data, j))]]

\* the tables validation reads: workbook[sheet] for each sheet name, or the
\* one DataFrame of a CSV file
LoadTables(path, file) ==
    IF IsExcelPath(path) THEN file.sheets ELSE <<ReadCsv(file.sheets[1])>>

\* ------------------------------------------------------------------------
\* The scan for potential unextracted values
\* ------------------------------------------------------------------------
\* cell.value and isinstance(cell.value, str)
\*     and target_kpi_name.lower() == str(cell.value).lower()
IsLabelCell(v, target) == IsStr(v) /\ v.s # <<>> /\ Lower(target) = Lower(Str(v))

RowHasLabel(grid, i, target) == \E j \in 1..Len(grid[i]) : IsLabelCell(grid[i][j], target)

\* kpi_row_index: the 0-based index of the first row holding the label, or -1
KpiRowIndex(grid, target) ==
    IF \E i \in 1..Len(grid) : RowHasLabel(grid, i, target)
    THEN (CHOOSE i \in 1..Len(grid) :
              /\ RowHasLabel(grid, i, target)
              /\ \A k \in 1..(i - 1) : ~RowHasLabel(grid, k, target)) - 1
    ELSE -1

\* sheet[n]: openpyxl rows are numbered from 1
SheetRow(grid, n) == grid[n]

\* df.iloc[n]: positions are numbered from 0
ILocRow(grid, n) == grid[n + 1]

\* sheet[kpi_row_index + 1]
ExcelPotentialRow(grid, kpi_row_index) == SheetRow(grid, kpi_row_index + 1)

\* df.iloc[kpi_row_index]
CsvPotentialRow(grid, kpi_row_index) == ILocRow(grid, kpi_row_index)

\* the strings one cell adds to potential_unextracted_kpi_values
PotentialOfCell(v) ==
    IF IsIntOrFloat(v) THEN {Remove(Str(v), ",")}
    ELSE IF IsStr(v) /\ MatchesNumberRegex(Remove(v.s, ",")) THEN {Remove(v.s, ",")}
    ELSE {}

PotentialOfRow(row) == UNION {PotentialOfCell(row[j]) : j \in 1..Len(row)}

\* the values one (sheet, target) pair adds
PotentialOfSheet(grid, target, isExcel) ==
    LET k == KpiRowIndex(grid, target) IN
    IF k = -1 THEN {}
    ELSE PotentialOfRow(IF isExcel THEN ExcelPotentialRow(grid, k)
                        ELSE CsvPotentialRow(grid, k))

ScanPotential(tables, targets, isExcel) ==
    UNION {PotentialOfSheet(tables[t], targets[k], isExcel) :
              t \in 1..Len(tables), k \in 1..Len(targets)}

\* ------------------------------------------------------------------------
\* Tier 2: cross-reference of one record against the source tables
\* ------------------------------------------------------------------------
\* One cell access.  raised says that the access raised (and the except
\* clause moved on to the next sheet).
\*   sheet.cell(row=r, column=c).value   creates the cell when the sheet has
\*                                       none there, and never raises for r, c >= 1
\*   df.iloc[r - 1, c - 1]               raises IndexError outside the frame
CellAccess(grid, r, c, isExcel) ==
    LET inside == r <= NumRows(grid) /\ c <= NumCols(grid) IN
    IF isExcel
    THEN [raised |-> FALSE, value |-> IF inside THEN grid[r][c] ELSE None]
    ELSE [raised |-> ~inside, value |-> IF inside THEN grid[r][c] ELSE None]

\* the first sheet, in sheet order, whose access does not raise, or 0
FirstSheetFound(tables, r, c, isExcel) ==
    IF \E t \in 1..Len(tables) : ~CellAccess(tables[t], r, c, isExcel).raised
    THEN CHOOSE t \in 1..Len(tables) :
            /\ ~CellAccess(tables[t], r, c, isExcel).raised
            /\ \A u \in 1..(t - 1) : CellAccess(tables[u], r, c, isExcel).raised
    ELSE 0

\* abs(float(a) - float(b)) < 1e-9, where a ValueError and a NaN both end in
\* VALUE_MISMATCH
NumericMatch(extStr, srcStr) ==
    LET e == ParseFloat(extStr)
        x == ParseFloat(srcStr)
    IN  /\ e.k = "num"
        /\ x.k = "num"
        /\ LessThanNano(AbsDiff(e.n, x.n))

\* the comparison of the extracted value with a source cell that is not None
CompareValues(extStr, cell, r, c) ==
    LET srcStr == Remove(Str(cell), ",") IN
    IF extStr = srcStr \/ NumericMatch(extStr, srcStr)
    THEN [status |-> "Valid", notes |-> <<>>, validated |-> TRUE]
    ELSE [status |-> "VALUE_MISMATCH",
          notes |-> <<MismatchNote(srcStr, extStr, r, c)>>,
          validated |-> FALSE]

\* the outcome of the sheet loop for one structurally valid record
Tier2Outcome(rec, tables, isExcel) ==
    LET r      == rec.row_number.n.ip
        c      == rec.column_number.n.ip
        extStr == Remove(Str(rec.value), ",")
        t      == FirstSheetFound(tables, r, c, isExcel)
        cell   == CellAccess(tables[t], r, c, isExcel).value
    IN  IF t = 0
        THEN [status |-> "LOCATION_NOT_FOUND_IN_SOURCE",
              notes |-> <<AtNote("Could not find value in any sheet/file", r, c)>>,
              validated |-> FALSE]
        ELSE IF cell = None
             THEN [status |-> "VALUE_MISSING_IN_SOURCE",
                   notes |-> <<AtNote("Value cell is empty in source", r, c)>>,
                   validated |-> FALSE]
             ELSE CompareValues(extStr, cell, r, c)

\* the cell accesses the sheet loop makes for record i: every sheet up to
\* and including the first whose access does not raise
Tier2Reads(i, rec, tables, isExcel) ==
    LET r == rec.row_number.n.ip
        c == rec.column_number.n.ip
        t == FirstSheetFound(tables, r, c, isExcel)
    IN  {[rec |-> i, sheet |-> u, row |-> r, col |-> c] :
            u \in 1..(IF t = 0 THEN Len(tables) ELSE t)}

\* mutant: the status and the notes are written, the validated flag is not
WithOutcomeKeepsFlag(rec, out) ==
    [rec EXCEPT !.validation_status = out.status,
                !.notes = rec.notes \o out.notes]

\* kpi_data[...] = ... on the dict itself
WithOutcome(rec, out) ==
    [rec EXCEPT !.validation_status = out.status,
                !.notes = rec.notes \o out.notes,
                !.validated = out.validated]

\* ------------------------------------------------------------------------
\* The texts the model draws its inputs from
\* ------------------------------------------------------------------------
S_KPI == <<"K", "P", "I">>

S_2023Q1 == <<"2", "0", "2", "3", "Q", "1">>

S_2023Q2 == <<"2", "0", "2", "3", "Q", "2">>

S_2023q1 == <<"2", "0", "2", "3", "q", "1">>

S_Revenue == <<"R", "e", "v", "e", "n", "u", "e">>

S_revenue == <<"r", "e", "v", "e", "n", "u", "e">>

S_REVENUE == <<"R", "E", "V", "E", "N", "U", "E">>

S_Margin == <<"M", "a", "r", "g", "i", "n">>

S_margin == <<"m", "a", "r", "g", "i", "n">>

S_Cash == <<"C", "a", "s", "h">>

S_EBITDA == <<"E", "B", "I", "T", "D", "A">>

S_Metric == <<"M", "e", "t", "r", "i", "c">>

S_12_5pct == <<"1", "2", ".", "5", "%">>

S_1comma000 == <<"1", ",", "0", "0", "0">>

S_abc == <<"a", "b", "c">>

S_blank == <<" ", " ">>

S_100000 == <<"1", "0", "0", "0", "0", "0">>

S_100comma000 == <<"1", "0", "0", ",", "0", "0", "0">>

S_110000 == <<"1", "1", "0", "0", "0", "0">>

S_100001 == <<"1", "0", "0", "0", "0", "1">>

S_0 == <<"0">>

S_5 == <<"5">>

S_100000_0000000001 == <<"1", "0", "0", ",", "0", "0", "0", ".", "0", "0", "0", "0", "0", "0", "0", "0", "0", "1">>

S_0_000000001 == <<"0", ".", "0", "0", "0", "0", "0", "0", "0", "0", "1">>

\* ------------------------------------------------------------------------
\* Input pools of the validation runs
\* ------------------------------------------------------------------------
\* a record as json.loads returns it, with source_file attached
LlmRec(kpi, value, period, row, col) ==
    Rec(kpi, value, period, PyStr(<<"f">>), row, col)

\* workbook A and CSV file A: the table of Scenario A
ExcelGridA ==
    << <<PyStr(S_KPI), PyStr(S_2023Q1), PyStr(S_2023Q2)>>,
       <<PyStr(S_Revenue), PyInt(100000), PyInt(110000)>> >>

CsvTextA ==
    << <<S_KPI, S_2023Q1, S_2023Q2>>,
       <<S_Revenue, S_100000, S_110000>> >>

\* workbook B and CSV file B: text cells, an empty cell, a percentage
ExcelGridB ==
    << <<PyStr(S_KPI), PyStr(S_2023Q1), PyStr(S_2023Q2)>>,
       <<PyStr(S_Revenue), PyInt(100000), PyInt(110000)>>,
       <<PyStr(S_Margin), PyStr(S_12_5pct), None>>,
       <<PyStr(S_Cash), PyStr(S_100000_0000000001), PyInt(0)>>,
       <<PyStr(S_EBITDA), PyInt(100001), PyInt(5)>> >>

ExcelGridB2 ==
    << <<PyStr(S_Revenue), PyInt(5)>> >>

CsvTextB ==
    << <<S_KPI, S_2023Q1, S_2023Q2>>,
       <<S_Revenue, S_100000, S_110000>>,
       <<S_Margin, S_12_5pct, <<>> >>,
       <<S_Cash, S_100000_0000000001, S_0>>,
       <<S_EBITDA, S_100001, S_5>> >>

Source(base, ext, loadable, sheets) ==
    [path |-> [base |-> base, ext |-> ext],
     file |-> [loadable |-> loadable, sheets |-> sheets]]

SourcePool ==
    { Source("a", ".xlsx", TRUE, <<ExcelGridA>>),
      Source("a", ".csv", TRUE, <<CsvTextA>>),
      Source("b", ".xlsx", TRUE, <<ExcelGridB, ExcelGridB2>>),
      Source("b", ".csv", TRUE, <<CsvTextB>>),
      Source("d", ".xlsx", TRUE, <<ExcelGridB2, ExcelGridB>>),
      Source("c", ".xls", FALSE, <<>>),
      Source("c", ".csv", FALSE, <<>>) }

TargetPool == { <<S_Revenue>>, <<S_margin, S_EBITDA>> }

RecordPool ==
    { LlmRec(PyStr(S_Revenue), PyInt(100000), PyStr(S_2023Q1), PyInt(1), PyInt(2)),
      LlmRec(PyStr(S_Revenue), PyInt(100000), PyStr(S_2023Q1), PyInt(-1), PyInt(2)),
      LlmRec(PyStr(S_Margin), PyStr(S_12_5pct), PyStr(S_2023Q1), PyInt(3), PyInt(2)),
      LlmRec(PyStr(S_Margin), PyFloat(Dec(FALSE, 0, 125000000, 0)), PyStr(S_2023Q1),
             PyInt(3), PyInt(2)),
      LlmRec(PyStr(S_Margin), PyFloat(Dec(FALSE, 0, 125000000, 0)), PyStr(S_2023Q1),
             PyInt(2), PyInt(2)),
      LlmRec(PyStr(S_Cash), PyInt(100000), PyStr(S_2023Q1), PyInt(4), PyInt(2)),
      LlmRec(PyStr(S_Cash), PyStr(S_0_000000001), PyStr(S_2023Q2), PyInt(4), PyInt(3)),
      LlmRec(PyStr(S_Margin), PyInt(5), PyStr(S_2023Q2), PyInt(2), PyInt(3)),
      LlmRec(PyStr(S_Margin), PyInt(5), PyStr(S_2023Q2), PyInt(3), PyInt(3)),
      LlmRec(PyStr(S_Revenue), PyInt(100000), PyStr(S_2023Q1), PyInt(9), PyInt(9)),
      LlmRec(PyStr(S_Revenue), PyFloat(DecInt(100000)), PyStr(S_2023Q1), PyInt(2), PyInt(2)),
      LlmRec(PyStr(S_Revenue), PyStr(S_100comma000), PyStr(S_2023Q1), PyInt(2), PyInt(2)) }

\* every combination of field values, for the structural checks
NamePool == {None, PyStr(<<>>), PyStr(S_blank), PyStr(S_Revenue), PyInt(5)}

ValuePool ==
    {None, PyStr(S_12_5pct), PyStr(S_1comma000), PyStr(S_abc), PyStr(<<>>),
     PyStr(S_100000), PyInt(100000), PyFloat(Dec(FALSE, 0, 125000000, 0)), PyOther}

PeriodPool == {None, PyStr(S_blank), PyStr(S_2023Q1)}

RowPool == {None, PyInt(0), PyInt(-1), PyInt(1), PyFloat(DecInt(1)), PyStr(<<"1">>)}

ColPool == {None, PyInt(0), PyInt(2), PyFloat(DecInt(2))}

\* sequences over S of length at most n
RECURSIVE SeqsUpTo(_, _)
SeqsUpTo(S, n) ==
    IF n = 0 THEN {<<>>}
    ELSE LET shorter == SeqsUpTo(S, n - 1) IN
         shorter \cup {Append(q, x) : q \in {p \in shorter : Len(p) = n - 1}, x \in S}

\* ------------------------------------------------------------------------
\* State
\* ------------------------------------------------------------------------
VARIABLES
    pc,                     \* the step the run is at
    extracted_kpis,         \* validate_kpi_data: the caller's list of dicts
    target_kpis,            \* validate_kpi_data: the KPI names asked for
    file_path,              \* file_path_to_validate_against
    disk_file,              \* the file behind file_path
    structurally_valid_kpis, \* positions in extracted_kpis (the same dicts)
    validated_kpis,         \* entries [ref, rec]: ref > 0 is the dict
                            \*   extracted_kpis[ref], ref = 0 a new dict rec
    source_tables,          \* workbook sheets, or the DataFrame of a CSV
    potential_unextracted_kpi_values,
    unextracted_numbers,    \* the returned list, as the set it is built from
    fileOpened,             \* history: load_workbook / read_csv was called
    cellReads,              \* history: the cell accesses Tier 2 made
    dfs,                    \* ExtractionState: the DataFrames
    chunk_rows,             \* orient_and_chunk_all: rows per chunk
    table_chunks,           \* ExtractionState
    chunk_row_offsets,      \* ExtractionState
    all_records,            \* extract_kpis_llm: the records of all chunks
    extracted,              \* ExtractionState / VerificationState
    llm_msgs,               \* the model's response to each chunk, in chunk order
    raised,                 \* the exception that ended the run, or "none"
    origin,                 \* history: the chunk, table and row each record
                            \*   was read from
    state_df,               \* VerificationState["df"]
    issues,                 \* VerificationState["issues"]
    xref_reads,             \* history: the rows cross_reference_checker read
    config,                 \* what the process was started with: the directory
                            \*   argument and the environment
    folder,                 \* the files of the input directory
    variant,                \* the module convert_and_process_file is taken from
    agent_kpis,             \* AgentState["kpis"]
    file_paths,             \* AgentState
    current_file_index,     \* AgentState
    extracted_data,         \* AgentState
    processed,              \* history: the paths convert_and_process_file finished
    workbook_sheet,         \* convert_excel_to_csv: the worksheet being converted
    csv_file                \* convert_excel_to_csv: the lines of the CSV file written

valVars ==
    <<extracted_kpis, target_kpis, file_path, disk_file, structurally_valid_kpis,
      validated_kpis, source_tables, potential_unextracted_kpi_values,
      unextracted_numbers, fileOpened, cellReads>>

verifVars == <<llm_msgs, raised, origin, state_df, issues, xref_reads>>

agentVars ==
    <<dfs, chunk_rows, table_chunks, chunk_row_offsets, all_records, extracted, verifVars>>

convVars == <<workbook_sheet, csv_file>>

coordVars ==
    <<folder, variant, agent_kpis, file_paths, current_file_index, extracted_data, processed,
      convVars>>

vars == <<pc, valVars, agentVars, config, coordVars>>

\* a process started on an existing directory with the API key set
ConfigReady == config = [csv_dir_is_dir |-> TRUE, api_key |-> TRUE]

\* no worksheet is being converted
ConvertIdle ==
    /\ workbook_sheet = [grid |-> <<>>, hidden_rows |-> {}, hidden_cols |-> {}]
    /\ csv_file = <<>>

\* the coordinator's state while another part of the program is modelled
CoordIdle ==
    /\ ConvertIdle
    /\ folder = <<>>
    /\ variant = "none"
    /\ agent_kpis = <<>>
    /\ file_paths = <<>>
    /\ current_file_index = 0
    /\ extracted_data = <<>>
    /\ processed = <<>>

\* the state of the extraction and verification nodes that have not run
VerifyIdle ==
    /\ llm_msgs = <<>>
    /\ raised = "none"
    /\ origin = {}
    /\ state_df = [columns |-> <<>>, index |-> <<>>, rows |-> <<>>]
    /\ issues = <<>>
    /\ xref_reads = {}

\* the agent's state while a validation run is modelled
AgentIdle ==
    /\ VerifyIdle
    /\ ConfigReady
    /\ CoordIdle
    /\ dfs = <<>>
    /\ chunk_rows = 1
    /\ table_chunks = <<>>
    /\ chunk_row_offsets = <<>>
    /\ all_records = <<>>
    /\ extracted = <<>>

\* the validator's state while an agent run is modelled
ValidateIdle ==
    /\ extracted_kpis = <<>>
    /\ target_kpis = <<>>
    /\ file_path = [base |-> "", ext |-> ""]
    /\ disk_file = [loadable |-> FALSE, sheets |-> <<>>]
    /\ structurally_valid_kpis = <<>>
    /\ validated_kpis = <<>>
    /\ source_tables = <<>>
    /\ potential_unextracted_kpi_values = {}
    /\ unextracted_numbers = {}
    /\ fileOpened = FALSE
    /\ cellReads = {}

\* ------------------------------------------------------------------------
\* validate_kpi_data(extracted_kpis, file_path_to_validate_against, target_kpis)
\* ------------------------------------------------------------------------
ValidateEntry(recs, src, targets) ==
    /\ pc = "tier1"
    /\ extracted_kpis = recs
    /\ target_kpis = targets
    /\ file_path = src.path
    /\ disk_file = src.file
    /\ structurally_valid_kpis = <<>>
    /\ validated_kpis = <<>>
    /\ source_tables = <<>>
    /\ potential_unextracted_kpi_values = {}
    /\ unextracted_numbers = {}
    /\ fileOpened = FALSE
    /\ cellReads = {}

InitValidate ==
    /\ \E recs \in SeqsUpTo(RecordPool, MaxRecs), src \in SourcePool, targets \in TargetPool :
          ValidateEntry(recs, src, targets)
    /\ AgentIdle

InitStructural ==
    /\ \E kpi \in NamePool, value \in ValuePool, period \in PeriodPool,
          row \in RowPool, col \in ColPool :
          ValidateEntry(<<LlmRec(kpi, value, period, row, col)>>,
                        Source("a", ".csv", TRUE, <<CsvTextA>>), <<S_Revenue>>)
    /\ AgentIdle

Positions(q) == [i \in 1..Len(q) |-> i]

\* the new dict appended for a structurally invalid record
InvalidEntry(r) ==
    [ref |-> 0,
     rec |-> [r EXCEPT !.validation_status = StructuralStatus(r),
                       !.notes = StructuralNotes(r),
                       !.validated = FALSE]]

\* the report entry that is the caller's own dict
RefEntry(i) == [ref |-> i, rec |-> NoRec]

\* mutant: the early return is never taken
NeverReturnsEarly(sv) == FALSE

\* if not structurally_valid_kpis: return
NoStructurallyValid(sv) == sv = <<>>

\* lines 24-95: the structural loop and the early return
StructuralValidation ==
    /\ pc = "tier1"
    /\ LET valid == SelectSeq(Positions(extracted_kpis),
                         LAMBDA i : StructuralStatus(extracted_kpis[i]) # "INVALID_STRUCTURE")
           invalid == SelectSeq(Positions(extracted_kpis),
                         LAMBDA i : StructuralStatus(extracted_kpis[i]) = "INVALID_STRUCTURE")
       IN  /\ structurally_valid_kpis' = valid
           /\ validated_kpis' = [k \in 1..Len(invalid) |-> InvalidEntry(extracted_kpis[invalid[k]])]
           /\ extracted_kpis' =
                 [i \in 1..Len(extracted_kpis) |->
                     IF StructuralStatus(extracted_kpis[i]) # "INVALID_STRUCTURE"
                     THEN [extracted_kpis[i] EXCEPT !.validation_status = "Valid",
                                                    !.notes = <<>>,
                                                    !.validated = TRUE]
                     ELSE extracted_kpis[i]]
           /\ pc' = IF NoStructurallyValid(valid) THEN "done" ELSE "load"
    /\ UNCHANGED <<target_kpis, file_path, disk_file, source_tables,
                   potential_unextracted_kpi_values, unextracted_numbers,
                   fileOpened, cellReads, agentVars, config, coordVars>>

\* mutant: a load failure leaves the records as Tier 1 left them
LoadErrorIgnored(path) == [status |-> "Valid", notes |-> <<>>, validated |-> TRUE]

\* lines 107-110 and 126-129: what a load failure writes into a record
LoadErrorOutcome(path) ==
    [status |-> "FILE_LOAD_ERROR",
     notes |-> <<Note(IF IsExcelPath(path)
                      THEN "Could not load Excel file"
                      ELSE "Could not load CSV file")>>,
     validated |-> FALSE]

\* lines 97-134: load the workbook or the CSV file; on failure every
\* structurally valid record becomes FILE_LOAD_ERROR and the call returns
LoadSource ==
    /\ pc = "load"
    /\ fileOpened' = TRUE
    /\ IF disk_file.loadable
       THEN /\ source_tables' = LoadTables(file_path, disk_file)
            /\ pc' = "scan"
            /\ UNCHANGED <<extracted_kpis, validated_kpis>>
       ELSE /\ extracted_kpis' =
                  [i \in 1..Len(extracted_kpis) |->
                      IF \E k \in 1..Len(structurally_valid_kpis) :
                             structurally_valid_kpis[k] = i
                      THEN WithOutcome(extracted_kpis[i], LoadErrorOutcome(file_path))
                      ELSE extracted_kpis[i]]
            /\ validated_kpis' = validated_kpis \o
                  [k \in 1..Len(structurally_valid_kpis) |->
                      RefEntry(structurally_valid_kpis[k])]
            /\ pc' = "done"
            /\ UNCHANGED source_tables
    /\ UNCHANGED <<target_kpis, file_path, disk_file, structurally_valid_kpis,
                   potential_unextracted_kpi_values, unextracted_numbers,
                   cellReads, agentVars, config, coordVars>>

\* lines 136-195: collect the potential values of every sheet and target
ScanSheets ==
    /\ pc = "scan"
    /\ potential_unextracted_kpi_values' =
          ScanPotential(source_tables, target_kpis, IsExcelPath(file_path))
    /\ pc' = "tier2"
    /\ UNCHANGED <<extracted_kpis, target_kpis, file_path, disk_file,
                   structurally_valid_kpis, validated_kpis, source_tables,
                   unextracted_numbers, fileOpened, cellReads, agentVars, config, coordVars>>

\* mutant: the loop starts at the second structurally valid record
Tier2CandidatesAfterFirst(sv, recs) == SubSeq(sv, 2, Len(sv))

\* for kpi_data in structurally_valid_kpis
Tier2Candidates(sv, recs) == sv

\* lines 197-316: cross-validate every structurally valid record
CrossValidate ==
    /\ pc = "tier2"
    /\ LET isExcel == IsExcelPath(file_path)
           cand == SelectSeq(Tier2Candidates(structurally_valid_kpis, extracted_kpis),
                       LAMBDA i : extracted_kpis[i].validation_status = "Valid")
           isCand(i) == \E k \in 1..Len(cand) : cand[k] = i
       IN  /\ extracted_kpis' =
                 [i \in 1..Len(extracted_kpis) |->
                     IF isCand(i)
                     THEN WithOutcome(extracted_kpis[i],
                              Tier2Outcome(extracted_kpis[i], source_tables, isExcel))
                     ELSE extracted_kpis[i]]
           /\ validated_kpis' = validated_kpis \o [k \in 1..Len(cand) |-> RefEntry(cand[k])]
           /\ cellReads' = cellReads \cup
                 UNION {Tier2Reads(cand[k], extracted_kpis[cand[k]], source_tables, isExcel) :
                           k \in 1..Len(cand)}
    /\ pc' = "collect"
    /\ UNCHANGED <<target_kpis, file_path, disk_file, structurally_valid_kpis,
                   source_tables, potential_unextracted_kpi_values,
                   unextracted_numbers, fileOpened, agentVars, config, coordVars>>

\* extracted_values_from_current_file
ExtractedValues(recs) ==
    {Remove(Str(recs[i].value), ",") : i \in {k \in 1..Len(recs) : recs[k].value # None}}

\* lines 318-334: report the potential values that were not extracted
CollectUnextracted ==
    /\ pc = "collect"
    /\ unextracted_numbers' =
          {v \in potential_unextracted_kpi_values : v \notin ExtractedValues(extracted_kpis)}
    /\ pc' = "done"
    /\ UNCHANGED <<extracted_kpis, target_kpis, file_path, disk_file,
                   structurally_valid_kpis, validated_kpis, source_tables,
                   potential_unextracted_kpi_values, fileOpened, cellReads, agentVars, config, coordVars>>

NextValidate ==
    \/ StructuralValidation
    \/ LoadSource
    \/ ScanSheets
    \/ CrossValidate
    \/ CollectUnextracted

SpecValidate == InitValidate /\ [][NextValidate]_vars

SpecStructural == InitStructural /\ [][NextValidate]_vars

\* the dict at position k of the returned validated_kpis
Report(k) ==
    IF validated_kpis[k].ref = 0 THEN validated_kpis[k].rec
    ELSE extracted_kpis[validated_kpis[k].ref]

\* ------------------------------------------------------------------------
\* kpi_agent.py: orient_and_chunk_all
\* ------------------------------------------------------------------------
\* A DataFrame: its column names, its index labels and its rows
DataFrame(columns, index, rows) == [columns |-> columns, index |-> index, rows |-> rows]

\* the table read from the t-th CSV file, with n rows: read_csv gives it the
\* index 0..n-1
TableOf(t, n) ==
    DataFrame(<<IF t = 1 THEN S_Metric ELSE S_KPI, S_2023Q1>>,
              [k \in 1..n |-> k - 1],
              [k \in 1..n |-> <<IF k % 2 = 1 THEN S_Revenue ELSE S_EBITDA,
                                IntToDigits(100 * t + k)>>])

\* _ensure_first_col_is_kpi: rename the first column, reset_index(drop=True)
EnsureFirstColIsKpi(df) ==
    DataFrame(IF Lower(df.columns[1]) # Lower(S_KPI)
              THEN [j \in 1..Len(df.columns) |-> IF j = 1 THEN S_KPI ELSE df.columns[j]]
              ELSE df.columns,
              [k \in 1..Len(df.rows) |-> k - 1],
              df.rows)

\* range(0, n, step), as a sequence
RangeStarts(n, step) == [k \in 1..((n + step - 1) \div step) |-> (k - 1) * step]

Min(a, b) == IF a < b THEN a ELSE b

\* mutant: the slice takes the row at stop too, as df.loc[start:stop] does
ILocSliceInclusive(df, start, stop) ==
    LET hi == Min(stop + 1, Len(df.rows)) IN
    DataFrame(df.columns,
              [k \in 1..(hi - start) |-> df.index[start + k]],
              [k \in 1..(hi - start) |-> df.rows[start + k]])

\* mutant: the slice is renumbered from 0, as reset_index(drop=True) would
ILocSliceRenumbered(df, start, stop) ==
    LET hi == Min(stop, Len(df.rows)) IN
    DataFrame(df.columns,
              [k \in 1..(hi - start) |-> k - 1],
              [k \in 1..(hi - start) |-> df.rows[start + k]])

\* df.iloc[start:stop]: the rows at positions start..stop-1, labels kept
ILocSlice(df, start, stop) ==
    LET hi == Min(stop, Len(df.rows)) IN
    DataFrame(df.columns,
              [k \in 1..(hi - start) |-> df.index[start + k]],
              [k \in 1..(hi - start) |-> df.rows[start + k]])

\* sub_df.to_markdown(index=True): the header, and each row behind its index
\* label.  The field df is history: the position in dfs of the table the
\* chunk was cut from.
Rendering(i, sub_df) ==
    [df |-> i, columns |-> sub_df.columns, index |-> sub_df.index, rows |-> sub_df.rows]

\* the chunks of one DataFrame, in order
ChunksOf(i, df0, size) ==
    LET df == EnsureFirstColIsKpi(df0)
        starts == RangeStarts(Len(df.rows), size)
    IN  [k \in 1..Len(starts) |->
            [chunk |-> Rendering(i, ILocSlice(df, starts[k], starts[k] + size)),
             offset |-> starts[k]]]

RECURSIVE Flatten(_)
Flatten(qq) == IF qq = <<>> THEN <<>> ELSE Head(qq) \o Flatten(Tail(qq))

InitChunk ==
    /\ pc = "chunk_all"
    /\ \E m \in 1..MaxTables :
          \E ns \in [1..m -> 0..MaxRows] : dfs = [t \in 1..m |-> TableOf(t, ns[t])]
    /\ chunk_rows \in 1..MaxChunkRows
    /\ table_chunks = <<>>
    /\ chunk_row_offsets = <<>>
    /\ all_records = <<>>
    /\ extracted = <<>>
    /\ VerifyIdle
    /\ ConfigReady
    /\ CoordIdle
    /\ ValidateIdle

\* orient_and_chunk_all(state, chunk_rows)
OrientAndChunkAll ==
    /\ pc = "chunk_all"
    /\ LET all == Flatten([i \in 1..Len(dfs) |-> ChunksOf(i, dfs[i], chunk_rows)]) IN
       /\ table_chunks' = [k \in 1..Len(all) |-> all[k].chunk]
       /\ chunk_row_offsets' = [k \in 1..Len(all) |-> all[k].offset]
    /\ pc' = "llm_extract"
    /\ UNCHANGED <<dfs, chunk_rows, all_records, extracted, verifVars, valVars, config, coordVars>>

NextChunk == OrientAndChunkAll

SpecChunk == InitChunk /\ [][NextChunk]_vars

\* ------------------------------------------------------------------------
\* kpi_agent.py: combine
\* ------------------------------------------------------------------------
\* a KPIRecord dumped to a dict
KPIRecord(name, value, header, row, col) ==
    [name |-> name, value |-> value, header |-> header, row |-> row, col |-> col]

KPIRecordPool ==
    { KPIRecord(S_Revenue, 1, S_2023Q1, 1, 2),
      KPIRecord(S_revenue, 2, S_2023Q1, 1, 2),
      KPIRecord(S_Revenue, 3, S_2023q1, 1, 2),
      KPIRecord(S_EBITDA, 4, S_2023Q1, 2, 2),
      KPIRecord(S_REVENUE, 1, S_2023Q1, 3, 2) }

\* mutant: the key keeps the name as spelled
DedupKeyVerbatim(rec) == <<rec.name, rec.header>>

\* key = (rec["name"].lower(), rec["header"])
DedupKey(rec) == <<Lower(rec.name), rec.header>>

\* unique[key] = rec only if key not in unique; list(unique.values()) keeps
\* the order in which the keys were first inserted
Deduplicate(recs) ==
    LET first == SelectSeq(Positions(recs),
                     LAMBDA i : \A j \in 1..(i - 1) : DedupKey(recs[j]) # DedupKey(recs[i]))
    IN  [k \in 1..Len(first) |-> recs[first[k]]]

InitCombine ==
    /\ pc = "combine"
    /\ all_records \in SeqsUpTo(KPIRecordPool, MaxExtracted)
    /\ extracted = all_records
    /\ dfs = <<>>
    /\ chunk_rows = 1
    /\ table_chunks = <<>>
    /\ chunk_row_offsets = <<>>
    /\ VerifyIdle
    /\ ConfigReady
    /\ CoordIdle
    /\ ValidateIdle

\* combine(state)
Combine ==
    /\ pc = "combine"
    /\ extracted' = Deduplicate(extracted)
    /\ pc' = "combined"
    /\ UNCHANGED <<dfs, chunk_rows, table_chunks, chunk_row_offsets, all_records,
                   verifVars, valVars, config, coordVars>>

NextCombine == Combine

SpecCombine == InitCombine /\ [][NextCombine]_vars

\* ------------------------------------------------------------------------
\* kpi_agent.py: extract_kpis_llm
\* ------------------------------------------------------------------------
\* The model's response to one chunk:
\*   "no_tool_call"   msg.tool_calls is empty
\*   "invalid_args"   a tool call whose arguments make KPIRecord.model_validate
\*                    raise ValidationError, or that have no "kpis" key
\*   "tool_call"      a tool call whose "kpis" list validates (kpis holds it)
LlmMsg(kind, kpis) == [kind |-> kind, kpis |-> kpis]

\* the record a model that follows SYSTEM_PROMPT returns for row k of a
\* chunk: the row's name and number, the column's header, and the value of
\* the index column adjusted to be 1-based
RowRecord(chunk, k) ==
    KPIRecord(chunk.rows[k][1], DigitsToInt(chunk.rows[k][2]), chunk.columns[2],
              chunk.index[k] + 1, 2)

\* the name is one of the KPIs of the prompt's KPI list
IsTarget(name, targets) == \E t \in 1..Len(targets) : Lower(targets[t]) = Lower(name)

\* the rows of a chunk that hold a KPI of the list
TargetRows(chunk, targets) ==
    SelectSeq(Positions(chunk.rows), LAMBDA k : IsTarget(chunk.rows[k][1], targets))

\* the records of those rows, in row order
ChunkRecords(chunk, targets) ==
    LET ks == TargetRows(chunk, targets) IN
    [j \in 1..Len(ks) |-> RowRecord(chunk, ks[j])]

\* the responses model.invoke may give to the chunks of a run: every chunk
\* read as instructed, but for at most one chunk that is answered without a
\* tool call, with arguments that fail the schema, or with an empty list
LlmResponses(chunks, targets) ==
    LET asInstructed ==
            [c \in 1..Len(chunks) |-> LlmMsg("tool_call", ChunkRecords(chunks[c], targets))]
    IN  {asInstructed} \cup
        {[asInstructed EXCEPT ![c] = m] :
            c \in 1..Len(chunks),
            m \in {LlmMsg("no_tool_call", <<>>), LlmMsg("invalid_args", <<>>),
                   LlmMsg("tool_call", <<>>)}}

\* if not msg.tool_calls: continue
HasToolCalls(msg) == msg.kind # "no_tool_call"

\* mutant: arguments that fail the schema are skipped, not raised
NeverFailsSchema(msg) == FALSE

\* except (ValidationError, KeyError): raise RuntimeError
FailsSchema(msg) == msg.kind = "invalid_args"

\* mutant: the parsed records are put in front of the collected ones
ExtendFront(acc, parsed) == parsed \o acc

\* all_records.extend(parsed)
Extend(acc, parsed) == acc \o parsed

\* the loop over the chunks from chunk c on: the records collected, the
\* chunk at which the loop raised (0 if none), and the exception
RECURSIVE CollectRecords(_, _, _)
CollectRecords(msgs, c, acc) ==
    IF c > Len(msgs) THEN [records |-> acc, raised |-> "none", at |-> 0]
    ELSE IF ~HasToolCalls(msgs[c]) THEN CollectRecords(msgs, c + 1, acc)
    ELSE IF FailsSchema(msgs[c]) THEN [records |-> acc, raised |-> "RuntimeError", at |-> c]
    ELSE CollectRecords(msgs, c + 1, Extend(acc, msgs[c].kpis))

\* history: where each collected record was read
OriginOf(msgs, chunks, targets, upto) ==
    UNION {{[rec |-> RowRecord(chunks[c], k), chunk |-> c, df |-> chunks[c].df,
             label |-> chunks[c].index[k]] :
               k \in {TargetRows(chunks[c], targets)[j] :
                         j \in 1..Len(TargetRows(chunks[c], targets))}} :
           c \in {x \in 1..upto : msgs[x].kind = "tool_call" /\ msgs[x].kpis # <<>>}}

\* extract_kpis_llm(state, model): state["extracted"] is assigned only when
\* the loop ends without raising
ExtractKpisLlm ==
    /\ pc = "llm_extract"
    /\ IF ~config.api_key
       THEN \* model is None: get_gemini_llm() raises before the loop
            /\ raised' = "ValueError"
            /\ pc' = "failed"
            /\ UNCHANGED <<llm_msgs, all_records, origin, extracted>>
       ELSE \E msgs \in LlmResponses(table_chunks, target_kpis) :
              LET out == CollectRecords(msgs, 1, <<>>) IN
              /\ llm_msgs' = msgs
              /\ all_records' = out.records
              /\ raised' = out.raised
              /\ origin' = OriginOf(msgs, table_chunks, target_kpis,
                                    IF out.at = 0 THEN Len(msgs) ELSE out.at - 1)
              /\ IF out.raised = "none"
                 THEN extracted' = out.records /\ pc' = "combine"
                 ELSE extracted' = extracted /\ pc' = "failed"
    /\ UNCHANGED <<dfs, chunk_rows, table_chunks, chunk_row_offsets,
                   state_df, issues, xref_reads, valVars, config, coordVars>>

\* ------------------------------------------------------------------------
\* kpi_agent.py: __main__ and the verification nodes
\* ------------------------------------------------------------------------
\* a cell that pd.concat fills in for a column a frame does not have; the
\* verification reads cells through str() only, and str(nan) is "nan"
NaNCell == <<"n", "a", "n">>

RECURSIVE AppendNew(_, _)
AppendNew(cols, more) ==
    IF more = <<>> THEN cols
    ELSE AppendNew(IF \E j \in 1..Len(cols) : cols[j] = Head(more)
                   THEN cols ELSE Append(cols, Head(more)),
                   Tail(more))

\* pd.concat: the columns of the frames, in order of first appearance
RECURSIVE ConcatColumns(_)
ConcatColumns(frames) ==
    IF frames = <<>> THEN <<>>
    ELSE AppendNew(ConcatColumns(SubSeq(frames, 1, Len(frames) - 1)),
                   frames[Len(frames)].columns)

\* one row of a frame laid out under the columns of the result
ReindexRow(frame, row, cols) ==
    [j \in 1..Len(cols) |->
        IF \E i \in 1..Len(frame.columns) : frame.columns[i] = cols[j]
        THEN row[CHOOSE i \in 1..Len(frame.columns) : frame.columns[i] = cols[j]]
        ELSE NaNCell]

\* pd.concat(all_dfs, ignore_index=True): the rows of the frames one after
\* another, renumbered from 0
Concat(frames) ==
    LET cols == ConcatColumns(frames)
        rows == Flatten([i \in 1..Len(frames) |->
                    [k \in 1..Len(frames[i].rows) |->
                        ReindexRow(frames[i], frames[i].rows[k], cols)]])
    IN  DataFrame(cols, [k \in 1..Len(rows) |-> k - 1], rows)

\* an entry of the issues list: what it reports and the things it names
Issue(kind, detail) == [kind |-> kind, detail |-> detail]

\* __main__: the verification graph is invoked with the concatenated frames
\* and the records the extraction graph returned
StartVerification ==
    /\ pc = "combined"
    /\ dfs # <<>>
    /\ state_df' = Concat(dfs)
    /\ pc' = "schema"
    /\ UNCHANGED <<dfs, chunk_rows, table_chunks, chunk_row_offsets, all_records,
                   extracted, llm_msgs, raised, origin, issues, xref_reads, valVars, config, coordVars>>

\* KPIRecord.model_validate(rec) accepts a dict whose row and col are
\* integers and whose value is a number
ValidRecordDict(rec) == rec.row \in Int /\ rec.col \in Int /\ rec.value \in Int

\* one issue for every record that model_validate rejects
SchemaIssues(recs) ==
    LET bad == SelectSeq(Positions(recs), LAMBDA i : ~ValidRecordDict(recs[i]))
    IN  [k \in 1..Len(bad) |-> Issue("Invalid record structure", <<bad[k]>>)]

\* schema_validator(state)
SchemaValidator ==
    /\ pc = "schema"
    /\ issues' = issues \o SchemaIssues(extracted)
    /\ pc' = "missing"
    /\ UNCHANGED <<dfs, chunk_rows, table_chunks, chunk_row_offsets, all_records,
                   extracted, llm_msgs, raised, origin, state_df, xref_reads, valVars, config, coordVars>>

\* mutant: the names are compared as spelled
ExtractedNamesVerbatim(recs) == {recs[i].name : i \in 1..Len(recs)}

\* extracted_names = {r["name"].lower() for r in state["extracted"]}
ExtractedNames(recs) == {Lower(recs[i].name) : i \in 1..Len(recs)}

\* missing = [k for k in state["target_kpis"] if k.lower() not in extracted_names]
Missing(targets, recs) ==
    SelectSeq(targets, LAMBDA k : Lower(k) \notin ExtractedNames(recs))

\* missing_kpi_checker(state)
MissingKpiChecker ==
    /\ pc = "missing"
    /\ issues' = IF Missing(target_kpis, extracted) # <<>>
                 THEN Append(issues, Issue("Missing KPIs", Missing(target_kpis, extracted)))
                 ELSE issues
    /\ pc' = "dups"
    /\ UNCHANGED <<dfs, chunk_rows, table_chunks, chunk_row_offsets, all_records,
                   extracted, llm_msgs, raised, origin, state_df, xref_reads, valVars, config, coordVars>>

\* key = (rec["name"].lower(), rec["header"])
DupKey(rec) == <<Lower(rec.name), rec.header>>

\* dups: the key of every record whose key was seen at an earlier record
Dups(recs) ==
    LET ps == SelectSeq(Positions(recs),
                  LAMBDA i : \E j \in 1..(i - 1) : DupKey(recs[j]) = DupKey(recs[i]))
    IN  [k \in 1..Len(ps) |-> DupKey(recs[ps[k]])]

\* duplicate_checker(state)
DuplicateChecker ==
    /\ pc = "dups"
    /\ issues' = IF Dups(extracted) # <<>>
                 THEN Append(issues, Issue("Duplicate KPI/period pairs", Dups(extracted)))
                 ELSE issues
    /\ pc' = "sanity"
    /\ UNCHANGED <<dfs, chunk_rows, table_chunks, chunk_row_offsets, all_records,
                   extracted, llm_msgs, raised, origin, state_df, xref_reads, valVars, config, coordVars>>

\* math.isnan(val) or abs(val) > large_threshold: the values of the records
\* are integers below 2^31, none of them above the threshold 1e12
Implausible(val) == val \notin Int

\* weirds
Weirds(recs) == SelectSeq(recs, LAMBDA rec : Implausible(rec.value))

\* value_sanity_checker(state)
ValueSanityChecker ==
    /\ pc = "sanity"
    /\ issues' = IF Weirds(extracted) # <<>>
                 THEN Append(issues, Issue("Implausible numbers", Weirds(extracted)))
                 ELSE issues
    /\ pc' = "cross_ref"
    /\ UNCHANGED <<dfs, chunk_rows, table_chunks, chunk_row_offsets, all_records,
                   extracted, llm_msgs, raised, origin, state_df, xref_reads, valVars, config, coordVars>>

\* header in header_to_col_idx
HeaderKnown(frame, header) == \E j \in 1..Len(frame.columns) : frame.columns[j] = header

\* header_to_col_idx[header]: the 0-based position of the column
HeaderColIdx(frame, header) ==
    (CHOOSE j \in 1..Len(frame.columns) :
        /\ frame.columns[j] = header
        /\ \A u \in (j + 1)..Len(frame.columns) : frame.columns[u] # header) - 1

\* 0 <= row_idx_0based < len(df)
RowIdxValid(frame, rec) == 0 <= rec.row - 1 /\ rec.row - 1 < Len(frame.rows)

\* abs(extracted_value - df_value) > tolerance, with tolerance = 1e-6
MoreThanMicro(d) == d.ip > 0 \/ d.nano > 1000 \/ (d.nano = 1000 /\ d.pico > 0)

\* what cross_reference_checker reports for one record: "none" if it matches
CrossReference(frame, rec) ==
    IF ~HeaderKnown(frame, rec.header) THEN "unknown header"
    ELSE IF ~RowIdxValid(frame, rec) THEN "invalid row index"
    ELSE LET cell == frame.rows[rec.row][HeaderColIdx(frame, rec.header) + 1]
             v    == NormalizeNumberString(cell)
         IN  IF v.k # "num" THEN "Value mismatch"
             ELSE IF MoreThanMicro(AbsDiff(DecInt(rec.value), v.n)) THEN "Value mismatch"
             ELSE "none"

\* one issue for every record that does not match, in record order
CrossReferenceIssues(frame, recs) ==
    LET found == SelectSeq(Positions(recs),
                     LAMBDA i : CrossReference(frame, recs[i]) # "none")
    IN  [k \in 1..Len(found) |-> Issue(CrossReference(frame, recs[found[k]]), <<found[k]>>)]

\* history: the cells df.iloc[row_idx_0based, col_idx_0based] was read at
CrossReferenceReads(frame, recs) ==
    {[rec |-> i, row |-> recs[i].row - 1, col |-> HeaderColIdx(frame, recs[i].header)] :
        i \in {x \in 1..Len(recs) :
                  HeaderKnown(frame, recs[x].header) /\ RowIdxValid(frame, recs[x])}}

\* cross_reference_checker(state)
CrossReferenceChecker ==
    /\ pc = "cross_ref"
    /\ issues' = issues \o CrossReferenceIssues(state_df, extracted)
    /\ xref_reads' = CrossReferenceReads(state_df, extracted)
    /\ pc' = "report"
    /\ UNCHANGED <<dfs, chunk_rows, table_chunks, chunk_row_offsets, all_records,
                   extracted, llm_msgs, raised, origin, state_df, valVars, config, coordVars>>

\* report_generator(state): prints the issues
ReportGenerator ==
    /\ pc = "report"
    /\ pc' = "end"
    /\ UNCHANGED <<dfs, chunk_rows, table_chunks, chunk_row_offsets, all_records,
                   extracted, verifVars, valVars, config, coordVars>>

\* the numbers of rows of the tables of an agent run
AgentRowCounts == {0, 1, 3}

AgentTargetPool == { <<S_Revenue>>, <<S_revenue, S_EBITDA>> }

\* the state after load_dir: one DataFrame for each CSV file of the folder
InitAgent ==
    /\ pc = "chunk_all"
    /\ \E m \in 1..MaxTables :
          \E ns \in [1..m -> AgentRowCounts] : dfs = [t \in 1..m |-> TableOf(t, ns[t])]
    /\ chunk_rows \in 1..MaxChunkRows
    /\ target_kpis \in AgentTargetPool
    /\ table_chunks = <<>>
    /\ chunk_row_offsets = <<>>
    /\ all_records = <<>>
    /\ extracted = <<>>
    /\ VerifyIdle
    /\ ConfigReady
    /\ CoordIdle
    /\ extracted_kpis = <<>>
    /\ file_path = [base |-> "", ext |-> ""]
    /\ disk_file = [loadable |-> FALSE, sheets |-> <<>>]
    /\ structurally_valid_kpis = <<>>
    /\ validated_kpis = <<>>
    /\ source_tables = <<>>
    /\ potential_unextracted_kpi_values = {}
    /\ unextracted_numbers = {}
    /\ fileOpened = FALSE
    /\ cellReads = {}

\* the extraction graph followed by the verification graph
NextAgent ==
    \/ OrientAndChunkAll
    \/ ExtractKpisLlm
    \/ Combine
    \/ StartVerification
    \/ SchemaValidator
    \/ MissingKpiChecker
    \/ DuplicateChecker
    \/ ValueSanityChecker
    \/ CrossReferenceChecker
    \/ ReportGenerator

SpecAgent == InitAgent /\ [][NextAgent]_vars

\* __main__, lines 440-446: the checks made on the arguments before the
\* graphs are built; sys.exit ends the process
Main ==
    /\ pc = "main"
    /\ IF ~config.csv_dir_is_dir \/ target_kpis = <<>>
       THEN pc' = "exit" /\ raised' = "SystemExit"
       ELSE pc' = "load_dir" /\ raised' = raised
    /\ UNCHANGED <<dfs, chunk_rows, table_chunks, chunk_row_offsets, all_records,
                   extracted, llm_msgs, origin, state_df, issues, xref_reads,
                   valVars, config, coordVars>>

\* load_csvs_from_dir(state): one DataFrame for each *.csv file, in sorted
\* order; a directory without CSV files raises
LoadCsvsFromDir ==
    /\ pc = "load_dir"
    /\ IF ~config.csv_dir_is_dir
       THEN pc' = "failed" /\ raised' = "FileNotFoundError" /\ dfs' = dfs
       ELSE IF folder = <<>>
       THEN pc' = "failed" /\ raised' = "RuntimeError" /\ dfs' = dfs
       ELSE pc' = "chunk_all" /\ raised' = raised /\ dfs' = folder
    /\ UNCHANGED <<chunk_rows, table_chunks, chunk_row_offsets, all_records,
                   extracted, llm_msgs, origin, state_df, issues, xref_reads,
                   valVars, config, coordVars>>

\* the targets left of --kpis after the split on commas and the strip
MainTargetPool == AgentTargetPool \cup {<<>>}

\* a process started from the command line: the directory may not exist,
\* the list of KPIs may be empty and GOOGLE_API_KEY may not be set
InitMain ==
    /\ pc = "main"
    /\ config \in [csv_dir_is_dir : BOOLEAN, api_key : BOOLEAN]
    /\ target_kpis \in MainTargetPool
    /\ IF config.csv_dir_is_dir
       THEN \E m \in 0..MaxTables :
               \E ns \in [1..m -> AgentRowCounts] : folder = [t \in 1..m |-> TableOf(t, ns[t])]
       ELSE folder = <<>>
    /\ chunk_rows \in 1..MaxChunkRows
    /\ dfs = <<>>
    /\ table_chunks = <<>>
    /\ chunk_row_offsets = <<>>
    /\ all_records = <<>>
    /\ extracted = <<>>
    /\ VerifyIdle
    /\ variant = "none"
    /\ agent_kpis = <<>>
    /\ file_paths = <<>>
    /\ current_file_index = 0
    /\ extracted_data = <<>>
    /\ processed = <<>>
    /\ ConvertIdle
    /\ extracted_kpis = <<>>
    /\ file_path = [base |-> "", ext |-> ""]
    /\ disk_file = [loadable |-> FALSE, sheets |-> <<>>]
    /\ structurally_valid_kpis = <<>>
    /\ validated_kpis = <<>>
    /\ source_tables = <<>>
    /\ potential_unextracted_kpi_values = {}
    /\ unextracted_numbers = {}
    /\ fileOpened = FALSE
    /\ cellReads = {}

NextMain ==
    \/ Main
    \/ LoadCsvsFromDir
    \/ NextAgent

SpecMain == InitMain /\ [][NextMain]_vars

\* build_verification_graph: the edge that leaves each node
VerificationEdges ==
    [n \in {"schema", "missing", "dups", "sanity", "cross_ref", "report"} |->
        CASE n = "schema"    -> "missing"
          [] n = "missing"   -> "dups"
          [] n = "dups"      -> "sanity"
          [] n = "sanity"    -> "cross_ref"
          [] n = "cross_ref" -> "report"
          [] n = "report"    -> "end"]

\* a node of the verification graph returns and its edge is followed
FollowEdge == pc \in DOMAIN VerificationEdges /\ pc' = VerificationEdges[pc]

\* the graph engine runs the next node as soon as the previous one returns
SpecAgentFair == InitAgent /\ [][NextAgent]_vars /\ WF_pc(FollowEdge)

\* ------------------------------------------------------------------------
\* utlis/excel_to_csv_utils.py: convert_excel_to_csv
\* ------------------------------------------------------------------------
\* a cell of the DataFrame pd.read_excel(header=None) returns: NaN for an
\* empty cell, the cell's text otherwise
NaN == [nan |-> TRUE, text |-> <<>>]

Text(t) == [nan |-> FALSE, text |-> t]

\* the text of the cell at row r and column c of the worksheets drawn
CellText(r, c) == <<"v", Digits[r + 1], Digits[c + 1]>>

\* a worksheet: its cells and the rows and columns marked hidden
Worksheet(grid, hidden_rows, hidden_cols) ==
    [grid |-> grid, hidden_rows |-> hidden_rows, hidden_cols |-> hidden_cols]

\* the column counts of the worksheets drawn
SheetColCounts == {1, 2}

\* the worksheets drawn: every pattern of empty cells, at most one hidden
\* row and at most one hidden column
SheetPool ==
    UNION { UNION { { Worksheet([r \in 1..n |-> [c \in 1..m |->
                                    IF filled[<<r, c>>] THEN Text(CellText(r, c)) ELSE NaN]],
                                hr, hc)
                      : filled \in [(1..n) \X (1..m) -> BOOLEAN],
                        hr \in {{}} \cup {{r} : r \in 1..n},
                        hc \in {{}} \cup {{c} : c \in 1..m} }
                    : m \in SheetColCounts }
            : n \in 1..MaxSheetRows }

\* lines 28-49: df.iloc[visible rows] and then .iloc[:, visible columns]
Filtered(sheet) ==
    LET rows == SelectSeq(Positions(sheet.grid), LAMBDA r : r \notin sheet.hidden_rows)
        width == IF sheet.grid = <<>> THEN 0 ELSE Len(sheet.grid[1])
        cols == SelectSeq([c \in 1..width |-> c], LAMBDA c : c \notin sheet.hidden_cols)
    IN  [i \in 1..Len(rows) |-> [j \in 1..Len(cols) |-> sheet.grid[rows[i]][cols[j]]]]

\* df_filtered.dropna(how='all', inplace=True)
DropBlankRows(grid) ==
    SelectSeq(grid, LAMBDA row : \E j \in 1..Len(row) : ~row[j].nan)

\* df_filtered.dropna(axis=1, how='all', inplace=True)
DropBlankCols(grid) ==
    LET width == IF grid = <<>> THEN 0 ELSE Len(grid[1])
        cols == SelectSeq([c \in 1..width |-> c],
                          LAMBDA c : \E i \in 1..Len(grid) : ~grid[i][c].nan)
    IN  [i \in 1..Len(grid) |-> [j \in 1..Len(cols) |-> grid[i][cols[j]]]]

\* mutant: the first row becomes the header and also stays a data row
PromoteHeaderKeepsRow(grid) ==
    IF grid = <<>> THEN [columns |-> <<>>, rows |-> <<>>]
    ELSE [columns |-> grid[1], rows |-> grid]

\* lines 57-59: the first remaining row becomes the header, if there is one
PromoteHeader(grid) ==
    IF grid = <<>> THEN [columns |-> <<>>, rows |-> <<>>]
    ELSE [columns |-> grid[1], rows |-> Tail(grid)]

\* the DataFrame that is written for one worksheet
Normalize(sheet) == PromoteHeader(DropBlankCols(DropBlankRows(Filtered(sheet))))

\* a field of a CSV line: NaN is written as the empty field
ToCsvField(cell) == IF cell.nan THEN <<>> ELSE cell.text

\* df_filtered.to_csv(csv_file_path, index=False): the header line, then
\* one line for each row; a frame without columns gives no line at all
ToCsv(frame) ==
    IF frame.columns = <<>> THEN <<>>
    ELSE [i \in 1..(Len(frame.rows) + 1) |->
            LET row == IF i = 1 THEN frame.columns ELSE frame.rows[i - 1]
            IN  [j \in 1..Len(row) |-> ToCsvField(row[j])]]

\* an empty field is read as NaN
FromCsvField(t) == IF t = <<>> THEN NaN ELSE Text(t)

\* the converted table as a worksheet again: the header line is its first
\* row and nothing is hidden
ReadBack(lines) ==
    Worksheet([i \in 1..Len(lines) |-> [j \in 1..Len(lines[i]) |-> FromCsvField(lines[i][j])]],
              {}, {})

\* convert_excel_to_csv on one worksheet
ConvertExcelToCsv ==
    /\ pc \in {"convert", "convert_again"}
    /\ csv_file' = ToCsv(Normalize(workbook_sheet))
    /\ pc' = IF pc = "convert" THEN "converted" ELSE "converted_again"
    /\ UNCHANGED <<workbook_sheet, folder, variant, agent_kpis, file_paths,
                   current_file_index, extracted_data, processed, config,
                   valVars, agentVars>>

\* the converted table is given to convert_excel_to_csv once more
Reconvert ==
    /\ pc = "converted"
    /\ workbook_sheet' = ReadBack(csv_file)
    /\ pc' = "convert_again"
    /\ UNCHANGED <<csv_file, folder, variant, agent_kpis, file_paths,
                   current_file_index, extracted_data, processed, config,
                   valVars, agentVars>>

InitNormalize ==
    /\ pc = "convert"
    /\ workbook_sheet \in SheetPool
    /\ csv_file = <<>>
    /\ folder = <<>>
    /\ variant = "none"
    /\ agent_kpis = <<>>
    /\ file_paths = <<>>
    /\ current_file_index = 0
    /\ extracted_data = <<>>
    /\ processed = <<>>
    /\ ConfigReady
    /\ ValidateIdle
    /\ VerifyIdle
    /\ dfs = <<>>
    /\ chunk_rows = 1
    /\ table_chunks = <<>>
    /\ chunk_row_offsets = <<>>
    /\ all_records = <<>>
    /\ extracted = <<>>

NextNormalize ==
    \/ ConvertExcelToCsv
    \/ Reconvert

SpecNormalize == InitNormalize /\ [][NextNormalize]_vars

\* ------------------------------------------------------------------------
\* kpi_extractor_agent.py and utlis/file_processing_utils.py: the coordinator
\* ------------------------------------------------------------------------
\* a record of the JSON array extract_kpis_with_llm returns: no source_file
ReplyRec(kpi, value) == Rec(kpi, value, PyStr(S_2023Q1), Absent, PyInt(2), PyInt(2))

\* a worksheet as the sheet loop meets it: whether its converted CSV file is
\* there, whether pd.read_csv can read it, and what the model replies to it
Sheet(csv_exists, csv_readable, reply) ==
    [csv_exists |-> csv_exists, csv_readable |-> csv_readable, reply |-> reply]

\* a file below the folder: whether openpyxl can load it, and the sheets the
\* sheet loop goes through (the fallback "Sheet1" when it cannot be loaded)
File(name, ext, loads, sheets) ==
    [name |-> name, ext |-> ext, loads |-> loads, sheets |-> sheets]

FilePool ==
    { File("plain", ".xlsx", TRUE,
           <<Sheet(TRUE, TRUE, <<ReplyRec(PyStr(S_Revenue), PyInt(100000))>>)>>),
      File("mixed", ".xls", TRUE,
           <<Sheet(TRUE, TRUE, <<ReplyRec(PyStr(S_revenue), PyInt(100000)),
                                 ReplyRec(PyStr(S_Cash), PyInt(5))>>),
             Sheet(TRUE, TRUE, <<ReplyRec(PyStr(S_Revenue), None),
                                 ReplyRec(None, PyInt(5)),
                                 ReplyRec(PyStr(S_EBITDA), PyInt(5))>>)>>),
      File("corrupt", ".xlsx", FALSE, <<Sheet(FALSE, FALSE, <<>>)>>),
      File("blank", ".xlsx", TRUE,
           <<Sheet(TRUE, TRUE, <<ReplyRec(PyStr(S_Revenue), PyInt(5))>>),
             Sheet(TRUE, FALSE, <<>>)>>),
      File("notes", ".txt", FALSE, <<>>) }

\* os.path.join(root, file): the path of the i-th file met by os.walk
PathOf(i) == [pos |-> i, name |-> folder[i].name, ext |-> folder[i].ext]

\* get_excel_files(state)
GetExcelFiles ==
    /\ pc = "get_excel_files"
    /\ file_paths' =
          LET found == SelectSeq(Positions(folder), LAMBDA i : IsExcelPath(folder[i]))
          IN  [k \in 1..Len(found) |-> PathOf(found[k])]
    /\ current_file_index' = 0
    /\ pc' = "convert_and_process_file"
    /\ UNCHANGED <<folder, variant, agent_kpis, extracted_data, processed, convVars,
                   config, valVars, agentVars>>

\* kpi_name in kpis_to_find_in_current_excel
InTargetsVerbatim(name, targets) == \E k \in 1..Len(targets) : targets[k] = name

\* kpi_name.lower() in {k.lower() for k in kpis_to_find_in_current_excel}
InTargetsLower(name, targets) ==
    \E k \in 1..Len(targets) : Lower(targets[k]) = Lower(name)

\* the condition under which a reply record is appended to extracted_data
Accepted(v, rec, targets) ==
    /\ IsStr(rec.kpi)
    /\ rec.kpi.s # <<>>
    /\ IF v = "kpi_extractor_agent"
       THEN InTargetsVerbatim(rec.kpi.s, targets)
       ELSE InTargetsLower(rec.kpi.s, targets)
    /\ rec.value # None

\* file_processing_utils attaches the base name of the file to the dict
Attached(v, rec, path) ==
    IF v = "kpi_extractor_agent" THEN rec
    ELSE [rec EXCEPT !.source_file = PyStr(<<path.name, path.ext>>)]

\* the records one sheet adds to extracted_data
SheetRecords(v, sheet, targets, path) ==
    LET kept == SelectSeq(sheet.reply, LAMBDA rec : Accepted(v, rec, targets))
    IN  [k \in 1..Len(kept) |-> Attached(v, kept[k], path)]

\* pd.read_csv(csv_file_path_full) raises
ReadRaises(sheet) == sheet.csv_exists /\ ~sheet.csv_readable

\* for sheet_name in sheet_names: the records appended, and whether
\* pd.read_csv raised on the way
RECURSIVE SheetLoop(_, _, _, _, _, _)
SheetLoop(v, sheets, j, targets, path, acc) ==
    IF j > Len(sheets) THEN [data |-> acc, raised |-> "none"]
    ELSE IF ~sheets[j].csv_exists THEN SheetLoop(v, sheets, j + 1, targets, path, acc)
    ELSE IF ReadRaises(sheets[j]) THEN [data |-> acc, raised |-> "EmptyDataError"]
    ELSE IF targets = <<>> THEN [data |-> acc, raised |-> "none"]
    ELSE SheetLoop(v, sheets, j + 1, targets, path,
                   acc \o SheetRecords(v, sheets[j], targets, path))

\* convert_and_process_file(state), of either module
ConvertAndProcessFile ==
    /\ pc = "convert_and_process_file"
    /\ IF current_file_index < Len(file_paths)
       THEN LET path == file_paths[current_file_index + 1]
                out == SheetLoop(variant, folder[path.pos].sheets, 1, agent_kpis, path,
                                 extracted_data)
            IN  /\ extracted_data' = out.data
                /\ raised' = out.raised
                /\ IF out.raised = "none"
                   THEN /\ current_file_index' = current_file_index + 1
                        /\ processed' = Append(processed, path)
                        /\ pc' = "should_continue"
                   ELSE /\ pc' = "failed"
                        /\ UNCHANGED <<current_file_index, processed>>
       ELSE /\ pc' = "should_continue"
            /\ UNCHANGED <<extracted_data, raised, current_file_index, processed>>
    /\ UNCHANGED <<folder, variant, agent_kpis, file_paths, convVars, config, valVars,
                   dfs, chunk_rows, table_chunks, chunk_row_offsets, all_records,
                   extracted, llm_msgs, origin, state_df, issues, xref_reads>>

\* should_continue(state): the conditional edge
ShouldContinue ==
    /\ pc = "should_continue"
    /\ pc' = IF current_file_index < Len(file_paths)
             THEN "convert_and_process_file"
             ELSE "end"
    /\ UNCHANGED <<coordVars, config, valVars, agentVars>>

InitCoord ==
    /\ pc = "get_excel_files"
    /\ folder \in SeqsUpTo(FilePool, MaxFiles)
    /\ variant \in {"kpi_extractor_agent", "file_processing_utils"}
    /\ agent_kpis \in AgentTargetPool
    /\ extracted_data = <<>>
    /\ file_paths = <<>>
    /\ current_file_index = 0
    /\ processed = <<>>
    /\ ConvertIdle
    /\ ConfigReady
    /\ ValidateIdle
    /\ VerifyIdle
    /\ dfs = <<>>
    /\ chunk_rows = 1
    /\ table_chunks = <<>>
    /\ chunk_row_offsets = <<>>
    /\ all_records = <<>>
    /\ extracted = <<>>

NextCoord ==
    \/ GetExcelFiles
    \/ ConvertAndProcessFile
    \/ ShouldContinue

SpecCoord == InitCoord /\ [][NextCoord]_vars

\* the graph engine runs a node whose incoming edge has been followed
SpecCoordFair == InitCoord /\ [][NextCoord]_vars /\ WF_vars(NextCoord)

\* ========================================================================
\* Properties
\* ========================================================================
\* the six keys a record has when it is passed in
SameInput(a, b) ==
    /\ a.kpi = b.kpi
    /\ a.value = b.value
    /\ a.period = b.period
    /\ a.source_file = b.source_file
    /\ a.row_number = b.row_number
    /\ a.column_number = b.column_number

\* position k of the report is the entry of input record i
IsEntryOf(k, i) ==
    \/ validated_kpis[k].ref = i
    \/ validated_kpis[k].ref = 0 /\ SameInput(validated_kpis[k].rec, extracted_kpis[i])

HasEntry(i) == \E k \in 1..Len(validated_kpis) : IsEntryOf(k, i)

\* the report entry of input record i
EntryOf(i) == Report(CHOOSE k \in 1..Len(validated_kpis) : IsEntryOf(k, i))

StatusOf(i) == EntryOf(i).validation_status

Inputs == 1..Len(extracted_kpis)

\* input record i went through the cross-reference of a loaded source
CrossChecked(i) ==
    /\ pc = "done"
    /\ disk_file.loadable
    /\ HasEntry(i)
    /\ StatusOf(i) # "INVALID_STRUCTURE"

RowOf(i) == extracted_kpis[i].row_number.n.ip

ColOf(i) == extracted_kpis[i].column_number.n.ip

\* table t has a cell at the address record i claims
HasCellAt(t, i) ==
    /\ RowOf(i) <= NumRows(source_tables[t])
    /\ ColOf(i) <= NumCols(source_tables[t])

CellAt(t, i) == source_tables[t][RowOf(i)][ColOf(i)]

\* the first table, in sheet order, with a cell at the address of record i
FirstTableWithCell(i) ==
    CHOOSE t \in 1..Len(source_tables) :
        HasCellAt(t, i) /\ \A u \in 1..(t - 1) : ~HasCellAt(u, i)

SomeTableHasCell(i) == \E t \in 1..Len(source_tables) : HasCellAt(t, i)

\* ---- C1 ----------------------------------------------------------------
\* C1: after combine, every key (name lower-cased, header verbatim) of the
\* input has exactly one record in the output, that record is the first
\* input record with the key, and every output record is an input record.
ClaimKey(rec) == <<Lower(rec.name), rec.header>>

FirstWithKey(recs, key) ==
    CHOOSE i \in 1..Len(recs) :
        ClaimKey(recs[i]) = key /\ \A j \in 1..(i - 1) : ClaimKey(recs[j]) # key

C1_DedupKeepsFirst ==
    pc = "combined" =>
        /\ \A i \in 1..Len(all_records) :
              LET key  == ClaimKey(all_records[i])
                  hits == {k \in 1..Len(extracted) : ClaimKey(extracted[k]) = key}
              IN  /\ Cardinality(hits) = 1
                  /\ \A k \in hits : extracted[k] = all_records[FirstWithKey(all_records, key)]
        /\ \A k \in 1..Len(extracted) :
              \E i \in 1..Len(all_records) : all_records[i] = extracted[k]

\* a later record with the key of an earlier one, but another value and
\* another spelling of the name, was discarded
C1_Witness ==
    /\ pc = "combined"
    /\ Len(extracted) < Len(all_records)
    /\ \E i, j \in 1..Len(all_records) :
          /\ i < j
          /\ all_records[i].name # all_records[j].name
          /\ all_records[i].value # all_records[j].value
          /\ ClaimKey(all_records[i]) = ClaimKey(all_records[j])

\* ---- C2 ----------------------------------------------------------------
\* C2: no cell is read for a record whose status is INVALID_STRUCTURE, and
\* when no input record is structurally valid the source file is not opened.
C2_TierSeparation ==
    /\ \A rd \in cellReads :
          ~\E k \in 1..Len(validated_kpis) :
               /\ Report(k).validation_status = "INVALID_STRUCTURE"
               /\ IsEntryOf(k, rd.rec)
    /\ (pc = "done" /\ \A k \in 1..Len(validated_kpis) :
                          Report(k).validation_status = "INVALID_STRUCTURE")
          => (~fileOpened /\ cellReads = {})

\* a run with an invalid and a valid record: cells were read, for the valid
\* one only
C2_Witness ==
    /\ pc = "done"
    /\ fileOpened
    /\ cellReads # {}
    /\ \E k \in 1..Len(validated_kpis) : Report(k).validation_status = "INVALID_STRUCTURE"
    /\ \E k \in 1..Len(validated_kpis) : Report(k).validation_status = "Valid"

\* ---- C3 ----------------------------------------------------------------
\* C3: for every table, the chunks cut from it, taken in order, hold the
\* table's row indices 0..n-1 and its rows exactly once and in order, and no
\* chunk holds more than chunk_rows rows.
ChunksOfTable(i) == SelectSeq(table_chunks, LAMBDA c : c.df = i)

C3_ChunkCoverage ==
    pc = "llm_extract" =>
        \A i \in 1..Len(dfs) :
            LET cs == ChunksOfTable(i) IN
            /\ Flatten([k \in 1..Len(cs) |-> cs[k].index])
                  = [k \in 1..Len(dfs[i].rows) |-> k - 1]
            /\ Flatten([k \in 1..Len(cs) |-> cs[k].rows]) = dfs[i].rows
            /\ \A k \in 1..Len(cs) :
                  /\ Len(cs[k].index) <= chunk_rows
                  /\ Len(cs[k].index) >= 1
                  /\ Len(cs[k].rows) = Len(cs[k].index)

\* a table cut into several chunks, the last one shorter than the bound
C3_Witness ==
    /\ pc = "llm_extract"
    /\ \E i \in 1..Len(dfs) :
          LET cs == ChunksOfTable(i) IN
          /\ Len(cs) >= 2
          /\ Len(cs[Len(cs)].index) < chunk_rows
          /\ Len(cs[1].index) = chunk_rows

\* ---- C4 ----------------------------------------------------------------
\* the five conditions, as the claim words them
ClaimTextBad(v) == ~IsStr(v) \/ Strip(v.s) = <<>>

ClaimIndexBad(v) == ~IsPyInt(v) \/ v.n.neg \/ v.n.ip < 1

StripPercent(s) == IF EndsWith(s, "%") THEN SubSeq(s, 1, Len(s) - 1) ELSE s

\* coercible to a number after stripping "," and a trailing "%"
ClaimCoerciblePct(v) ==
    \/ IsIntOrFloat(v)
    \/ IsStr(v) /\ ParseFloat(StripPercent(Remove(v.s, ","))).k # "err"

\* coercible to a number after stripping "," only
ClaimCoercible(v) ==
    \/ IsIntOrFloat(v)
    \/ IsStr(v) /\ ParseFloat(Remove(v.s, ",")).k # "err"

\* C4 as stated: a record is INVALID_STRUCTURE iff its name is missing or
\* blank, its value is missing or not coercible to a number after stripping
\* thousands separators and a trailing '%', its period is missing or blank,
\* or its row or column number is missing or <= 0.
C4_Original ==
    pc = "done" =>
        \A i \in Inputs :
            /\ HasEntry(i)
            /\ (StatusOf(i) = "INVALID_STRUCTURE") <=>
                  \/ ClaimTextBad(extracted_kpis[i].kpi)
                  \/ ~ClaimCoerciblePct(extracted_kpis[i].value)
                  \/ ClaimTextBad(extracted_kpis[i].period)
                  \/ ClaimIndexBad(extracted_kpis[i].row_number)
                  \/ ClaimIndexBad(extracted_kpis[i].column_number)

\* C4 as amended: only thousands separators are stripped from a text value,
\* so "1,000" is structurally valid and "12.5%" is INVALID_STRUCTURE; a name
\* or period that is no string and a row or column that is no integer count
\* as missing.
C4_StructuralIff ==
    pc = "done" =>
        \A i \in Inputs :
            /\ HasEntry(i)
            /\ (StatusOf(i) = "INVALID_STRUCTURE") <=>
                  \/ ClaimTextBad(extracted_kpis[i].kpi)
                  \/ ~ClaimCoercible(extracted_kpis[i].value)
                  \/ ClaimTextBad(extracted_kpis[i].period)
                  \/ ClaimIndexBad(extracted_kpis[i].row_number)
                  \/ ClaimIndexBad(extracted_kpis[i].column_number)

\* the record whose only defect is the value "12.5%" was given
\* INVALID_STRUCTURE, and the record with the value "1,000" was not
C4_Witness ==
    /\ pc = "done"
    /\ Len(extracted_kpis) = 1
    /\ HasEntry(1)
    /\ ~ClaimTextBad(extracted_kpis[1].kpi)
    /\ ~ClaimTextBad(extracted_kpis[1].period)
    /\ ~ClaimIndexBad(extracted_kpis[1].row_number)
    /\ ~ClaimIndexBad(extracted_kpis[1].column_number)
    /\ \/ extracted_kpis[1].value = PyStr(S_12_5pct) /\ StatusOf(1) = "INVALID_STRUCTURE"
       \/ extracted_kpis[1].value = PyStr(S_1comma000) /\ StatusOf(1) # "INVALID_STRUCTURE"

\* ---- C5 ----------------------------------------------------------------
\* the texts Tier 2 compares for record i: the extracted value and the cell
ExtractedText(i) == Remove(Str(extracted_kpis[i].value), ",")

SourceText(i) == Remove(Str(CellAt(FirstTableWithCell(i), i)), ",")

\* record i was compared with a cell that holds something
Compared(i) ==
    /\ CrossChecked(i)
    /\ SomeTableHasCell(i)
    /\ CellAt(FirstTableWithCell(i), i) \notin {None, PyNaN}

BothNumbers(i) ==
    /\ ParseFloat(ExtractedText(i)).k = "num"
    /\ ParseFloat(SourceText(i)).k = "num"

Difference(i) == AbsDiff(ParseFloat(ExtractedText(i)).n, ParseFloat(SourceText(i)).n)

\* C5: when both values parse as numbers the record is VALUE_MISMATCH
\* exactly when they differ by more than 1e-9 and Valid otherwise, a
\* difference equal to the tolerance being Valid.
C5_ToleranceInclusive ==
    \A i \in Inputs :
        (Compared(i) /\ BothNumbers(i)) =>
            IF MoreThanNano(Difference(i))
            THEN StatusOf(i) = "VALUE_MISMATCH"
            ELSE StatusOf(i) = "Valid"

\* ---- C6 ----------------------------------------------------------------
\* C6: the comparison is percentage- and currency-aware: a source cell whose
\* text, with "," and "$" stripped and a trailing "%" read as a division by
\* 100, is the extracted number compares Valid ("12.5%" against 0.125).
C6_PercentageAware ==
    \A i \in Inputs :
        (/\ Compared(i)
         /\ ParseFloat(ExtractedText(i)).k = "num"
         /\ NormalizeNumberString(Str(CellAt(FirstTableWithCell(i), i))).k = "num"
         /\ LessThanNano(AbsDiff(ParseFloat(ExtractedText(i)).n,
                NormalizeNumberString(Str(CellAt(FirstTableWithCell(i), i))).n)))
        => StatusOf(i) = "Valid"

\* ---- C7 ----------------------------------------------------------------
\* C7: a structurally valid record whose address has no cell in any table
\* of its source ends LOCATION_NOT_FOUND_IN_SOURCE with validated = false,
\* for workbooks as well as CSV files.
C7_LocationNotFound ==
    \A i \in Inputs :
        (CrossChecked(i) /\ ~SomeTableHasCell(i)) =>
            /\ StatusOf(i) = "LOCATION_NOT_FOUND_IN_SOURCE"
            /\ EntryOf(i).validated = FALSE

\* ---- C8 ----------------------------------------------------------------
\* the cell record i claims exists and holds nothing
CellEmpty(i) ==
    /\ SomeTableHasCell(i)
    /\ CellAt(FirstTableWithCell(i), i) \in {None, PyNaN}

\* C8: a structurally valid record whose cell exists but is empty ends
\* VALUE_MISSING_IN_SOURCE, for workbooks as well as CSV files.
C8_ValueMissing ==
    \A i \in Inputs :
        (CrossChecked(i) /\ CellEmpty(i)) => StatusOf(i) = "VALUE_MISSING_IN_SOURCE"

\* ---- C9 ----------------------------------------------------------------
\* the 1-based position of the first row of the table that holds the label
\* of the target, or 0
LabelRow(grid, target) == KpiRowIndex(grid, target) + 1

\* the numeric-looking cells of the row after the label row
FollowingRowValues(grid, target) ==
    LET l == LabelRow(grid, target) IN
    IF l = 0 \/ l + 1 > Len(grid) THEN {} ELSE PotentialOfRow(grid[l + 1])

\* C9: the potential values are the numeric-looking cells of the row
\* immediately after each target's label row, never those of the label row.
C9_FollowingRow ==
    pc = "tier2" =>
        potential_unextracted_kpi_values =
            UNION {FollowingRowValues(source_tables[t], target_kpis[k]) :
                      t \in 1..Len(source_tables), k \in 1..Len(target_kpis)}

\* ---- C10 ---------------------------------------------------------------
ScenarioA ==
    /\ file_path.ext = ".csv"
    /\ disk_file.loadable
    /\ disk_file.sheets = <<CsvTextA>>
    /\ target_kpis = <<S_Revenue>>
    /\ Len(extracted_kpis) = 1
    /\ SameInput(extracted_kpis[1],
                 LlmRec(PyStr(S_Revenue), PyInt(100000), PyStr(S_2023Q1), PyInt(1), PyInt(2)))

\* C10: in Scenario A the record is returned Valid and the unextracted
\* numbers include "110000".
C10_ScenarioA ==
    (pc = "done" /\ ScenarioA) =>
        /\ HasEntry(1)
        /\ StatusOf(1) = "Valid"
        /\ S_110000 \in unextracted_numbers

\* ---- C11 ---------------------------------------------------------------
\* what the scan of every table of the source for every target yields, less
\* the values of the extracted records
ScanOfSource ==
    {v \in ScanPotential(LoadTables(file_path, disk_file), target_kpis,
                         IsExcelPath(file_path)) :
        v \notin ExtractedValues(extracted_kpis)}

\* C11: the unextracted-number check does not depend on Tier 1 or Tier 2:
\* whenever the source can be read, the call returns the result of scanning
\* every table for every target, also when no record was extracted or no
\* record is structurally valid.
C11_ScanIndependent ==
    (pc = "done" /\ disk_file.loadable) => unextracted_numbers = ScanOfSource

\* ---- C12 ---------------------------------------------------------------
\* potential value p and extracted value v are the same value once both are
\* normalized ("," and "$" dropped, a number read as a number)
SameNormalized(p, v) ==
    LET a == NormalizeNumberString(p)
        b == NormalizeNumberString(Str(v))
    IN  IF a.k = "num" /\ b.k = "num"
        THEN a.n = b.n
        ELSE Remove(p, ",") = Remove(Str(v), ",")

\* some extracted record holds the potential value p
WasExtracted(p) ==
    \E i \in Inputs :
        /\ extracted_kpis[i].value # None
        /\ SameNormalized(p, extracted_kpis[i].value)

\* C12: a potential value is reported as unextracted exactly when no
\* extracted record of the file holds it after normalization, so that the
\* cell 100000 extracted as 100000.0 or as "100,000" is not reported.
C12_NormalizedMembership ==
    (pc = "done" /\ disk_file.loadable /\ fileOpened) =>
        \A p \in potential_unextracted_kpi_values :
            (p \in unextracted_numbers) <=> ~WasExtracted(p)

\* ---- C16 ---------------------------------------------------------------
\* the sheets read for input record i
SheetsRead(i) == {rd.sheet : rd \in {x \in cellReads : x.rec = i}}

\* C16: a record's walk over the sheets stops at the first sheet, in sheet
\* order, that has a cell at the claimed address: that sheet is read, no
\* later sheet is read, and the status is the one that sheet alone gives.
C16_FirstSheetWins ==
    \A i \in Inputs :
        (CrossChecked(i) /\ SomeTableHasCell(i)) =>
            LET t == FirstTableWithCell(i) IN
            /\ t \in SheetsRead(i)
            /\ \A u \in SheetsRead(i) : u <= t
            /\ StatusOf(i) = Tier2Outcome(extracted_kpis[i], <<source_tables[t]>>,
                                          IsExcelPath(file_path)).status

\* ---- C17 ---------------------------------------------------------------
\* the structural checks input record i fails, by the note each one leaves
FailedChecks(r) ==
       (IF ClaimTextBad(r.kpi) THEN {"KPI name is missing or invalid."} ELSE {})
  \cup (IF r.value = None THEN {"Value is missing."} ELSE {})
  \cup (IF r.value # None /\ ~ClaimCoercible(r.value)
        THEN {"Value is not a valid number format."} ELSE {})
  \cup (IF ClaimTextBad(r.period) THEN {"Period is missing or invalid."} ELSE {})
  \cup (IF ClaimIndexBad(r.row_number) THEN {"Row number is missing or invalid."} ELSE {})
  \cup (IF ClaimIndexBad(r.column_number)
        THEN {"Column number is missing or invalid."} ELSE {})

\* C17: a record that fails Tier 1 is in the report with validated = false
\* and its notes are one note for each structural check it fails (name,
\* value, period, row, column) and none for a check it passes.
C17_StructuralNotes ==
    pc = "done" =>
        \A i \in Inputs :
            FailedChecks(extracted_kpis[i]) # {} =>
                /\ HasEntry(i)
                /\ StatusOf(i) = "INVALID_STRUCTURE"
                /\ EntryOf(i).validated = FALSE
                /\ {EntryOf(i).notes[k].msg : k \in 1..Len(EntryOf(i).notes)}
                      = FailedChecks(extracted_kpis[i])
                /\ Len(EntryOf(i).notes) = Cardinality(FailedChecks(extracted_kpis[i]))

\* Scenario B: the record whose only defect is the row -1 is in the report
\* with the single note that names the row number
C17_Witness ==
    /\ pc = "done"
    /\ Len(extracted_kpis) = 1
    /\ extracted_kpis[1].row_number = PyInt(-1)
    /\ HasEntry(1)
    /\ StatusOf(1) = "INVALID_STRUCTURE"
    /\ EntryOf(1).validated = FALSE
    /\ EntryOf(1).notes = <<Note("Row number is missing or invalid.")>>
    /\ cellReads = {}

\* ---- C13 ---------------------------------------------------------------
\* the nodes of the verification graph that run after duplicate_checker
AfterDups == {"sanity", "cross_ref", "report", "end"}

\* two records read from different chunks have the same (name, header) key
\* and different values
Collision(o1, o2) ==
    /\ o1.chunk # o2.chunk
    /\ ClaimKey(o1.rec) = ClaimKey(o2.rec)
    /\ o1.rec.value # o2.rec.value

\* the issues list names the key as a duplicate
DuplicateReported(key) ==
    \E k \in 1..Len(issues) :
        /\ issues[k].kind = "Duplicate KPI/period pairs"
        /\ \E j \in 1..Len(issues[k].detail) : issues[k].detail[j] = key

\* C13 (Scenario D): when two chunks each yield a record for the same
\* (name, header) pair with different values, only the first-seen record is
\* left after combine, and after the duplicate checker has run the issues
\* list reports the pair.
C13_ScenarioD ==
    pc \in AfterDups =>
        \A o1, o2 \in origin :
            Collision(o1, o2) =>
                LET key == ClaimKey(o1.rec) IN
                /\ Cardinality({k \in 1..Len(extracted) : ClaimKey(extracted[k]) = key}) = 1
                /\ \E k \in 1..Len(extracted) :
                      extracted[k] = all_records[FirstWithKey(all_records, key)]
                /\ DuplicateReported(key)

\* ---- C14 ---------------------------------------------------------------
\* the states in which combine has run
AfterCombine == {"combined", "schema", "missing", "dups", "sanity", "cross_ref", "report", "end"}

\* o2 was read before o in the same input file and has the same key
EarlierInSameFile(o2, o) ==
    /\ o2.df = o.df
    /\ ClaimKey(o2.rec) = ClaimKey(o.rec)
    /\ o2.label < o.label

\* C14: deduplication works on the records of one input file at a time: a
\* record is dropped only when an earlier record of the same file has its
\* key, so records with the same key from different files both survive.
C14_PerFileDedup ==
    pc \in AfterCombine =>
        \A o \in origin :
            \/ \E k \in 1..Len(extracted) : extracted[k] = o.rec
            \/ \E o2 \in origin : EarlierInSameFile(o2, o)

\* ---- C15 ---------------------------------------------------------------
\* the table and the index label of each row of the concatenated frame
RowOrigins(frames) ==
    Flatten([i \in 1..Len(frames) |->
                [k \in 1..Len(frames[i].rows) |-> [df |-> i, label |-> k - 1]]])

\* C15: the row the cross-reference reads for a record is the row of the
\* table the model saw: a record whose row is the rendered index of its
\* source row, adjusted to 1-based, is looked up at that row of that table,
\* also when the run loads more than one table.
C15_RowIndexConsistent ==
    pc \in {"report", "end"} =>
        \A i \in 1..Len(extracted) :
            \A o \in origin :
                o.rec = extracted[i] =>
                    \E rd \in xref_reads :
                        /\ rd.rec = i
                        /\ RowOrigins(dfs)[rd.row + 1] = [df |-> o.df, label |-> o.label]

\* ---- C18 ---------------------------------------------------------------
\* the states in which missing_kpi_checker has run
AfterMissing == {"dups", "sanity", "cross_ref", "report", "end"}

MissingIssues == SelectSeq(issues, LAMBDA x : x.kind = "Missing KPIs")

\* the missing-KPI issue names the target
ReportedMissing(target) ==
    \E k \in 1..Len(MissingIssues) :
        \E j \in 1..Len(MissingIssues[k].detail) : MissingIssues[k].detail[j] = target

\* some extracted record has the target's name, ignoring case
NameExtracted(target) ==
    \E i \in 1..Len(extracted) : Lower(extracted[i].name) = Lower(target)

\* what missing_kpi_checker has left behind in every later state
MissingChecked ==
    pc \in AfterMissing =>
        /\ Len(MissingIssues) <= 1
        /\ \A t \in 1..Len(target_kpis) :
              ReportedMissing(target_kpis[t]) <=> ~NameExtracted(target_kpis[t])
        /\ extracted = Deduplicate(all_records)
        /\ raised = "none"

\* C18: missing_kpi_checker reports a target exactly when no extracted
\* record has its name ignoring case; it appends at most one issue, leaves
\* the extracted records as combine left them, and a verification run that
\* has reached the check goes on to its end.
C18_MissingKpis == []MissingChecked /\ ((pc = "missing") ~> (pc = "end"))

\* Scenario E: the run is over, EBITDA was reported missing, and the target
\* "revenue" was not, a record named "Revenue" having been extracted
C18_Witness ==
    /\ pc = "end"
    /\ target_kpis = <<S_revenue, S_EBITDA>>
    /\ ReportedMissing(S_EBITDA)
    /\ ~ReportedMissing(S_revenue)
    /\ \E i \in 1..Len(extracted) : extracted[i].name = S_Revenue

\* ---- C19 ---------------------------------------------------------------
\* the model answered some chunk with arguments that fail the schema
BadChunk == \E c \in 1..Len(llm_msgs) : llm_msgs[c].kind = "invalid_args"

\* C19 as stated: when the arguments for one chunk fail the record schema,
\* the records of the other chunks are still collected into the extracted
\* set.
C19_Original ==
    (pc \in {"combine", "failed"} /\ BadChunk) =>
        \A c \in 1..Len(llm_msgs) :
            \A j \in 1..Len(llm_msgs[c].kpis) :
                \E k \in 1..Len(extracted) : extracted[k] = llm_msgs[c].kpis[j]

\* C19 as amended: when the arguments for one chunk fail the record schema,
\* extract_kpis_llm raises RuntimeError; the run ends there and no record of
\* any chunk is stored in the extracted set.
C19_SchemaFailureAborts ==
    (pc \notin {"chunk_all", "llm_extract"} /\ BadChunk) =>
        /\ pc = "failed"
        /\ raised = "RuntimeError"
        /\ extracted = <<>>
        /\ ~ENABLED NextAgent

\* a run that failed at a chunk with records collected before it and
\* records of a later chunk never read
C19_Witness ==
    /\ pc = "failed"
    /\ extracted = <<>>
    /\ \E c \in 1..Len(llm_msgs) :
          /\ llm_msgs[c].kind = "invalid_args"
          /\ \E b \in 1..(c - 1) : llm_msgs[b].kpis # <<>>
          /\ \E a \in (c + 1)..Len(llm_msgs) : llm_msgs[a].kpis # <<>>

\* ---- C20 ---------------------------------------------------------------
\* chunk c was answered without a tool call or with an empty list
AnsweredEmpty(c) ==
    \/ llm_msgs[c].kind = "no_tool_call"
    \/ llm_msgs[c].kind = "tool_call" /\ llm_msgs[c].kpis = <<>>

\* C20: a chunk answered without a tool call, or with an empty record list,
\* contributes no record and raises nothing; the other chunks are still
\* processed and their records are stored in chunk order.
C20_EmptyChunks ==
    (pc \notin {"chunk_all", "llm_extract"} /\ ~BadChunk) =>
        /\ raised = "none"
        /\ pc # "failed"
        /\ all_records =
              Flatten([c \in 1..Len(table_chunks) |->
                          IF AnsweredEmpty(c) THEN <<>>
                          ELSE ChunkRecords(table_chunks[c], target_kpis)])
        /\ \A o \in origin : ~AnsweredEmpty(o.chunk)
        /\ pc = "combine" => extracted = all_records

\* a chunk answered without a tool call between two chunks whose records
\* were stored
C20_Witness ==
    /\ pc = "combine"
    /\ \E c \in 1..Len(llm_msgs) :
          /\ llm_msgs[c].kind = "no_tool_call"
          /\ TargetRows(table_chunks[c], target_kpis) # <<>>
          /\ \E b \in 1..(c - 1) : \E o \in origin : o.chunk = b
          /\ \E a \in (c + 1)..Len(llm_msgs) : \E o \in origin : o.chunk = a

\* ---- C23 ---------------------------------------------------------------
\* input record i passed the structural checks
StructurallyValid(i) ==
    \E k \in 1..Len(structurally_valid_kpis) : structurally_valid_kpis[k] = i

\* the reports of input record i, in report order
EntriesOf(i) ==
    SelectSeq(Positions(validated_kpis),
        LAMBDA k : IF StructurallyValid(i) THEN validated_kpis[k].ref = i
                   ELSE validated_kpis[k].ref = 0 /\ SameInput(validated_kpis[k].rec, extracted_kpis[i]))

\* C23: when the source file cannot be loaded, validate_kpi_data returns
\* without raising: every structurally valid record is reported with status
\* FILE_LOAD_ERROR and validated = false, every structurally invalid record
\* keeps INVALID_STRUCTURE, no cell is looked up and unextracted_numbers is
\* empty; the scan and the cross-validation are never entered.
C23_LoadError ==
    /\ (fileOpened /\ ~disk_file.loadable) => pc = "done"
    /\ (pc = "done" /\ ~disk_file.loadable) =>
          /\ \A i \in Inputs :
                /\ EntriesOf(i) # <<>>
                /\ \A k \in 1..Len(EntriesOf(i)) :
                      LET r == Report(EntriesOf(i)[k]) IN
                      IF StructurallyValid(i)
                      THEN r.validation_status = "FILE_LOAD_ERROR" /\ ~r.validated
                      ELSE r.validation_status = "INVALID_STRUCTURE" /\ ~r.validated
          /\ cellReads = {}
          /\ source_tables = <<>>
          /\ potential_unextracted_kpi_values = {}
          /\ unextracted_numbers = {}

\* a call on an unloadable file that returned a load error for one record
\* and a structural failure for another
C23_Witness ==
    /\ pc = "done"
    /\ fileOpened
    /\ ~disk_file.loadable
    /\ \E k \in 1..Len(validated_kpis) : Report(k).validation_status = "FILE_LOAD_ERROR"
    /\ \E k \in 1..Len(validated_kpis) : Report(k).validation_status = "INVALID_STRUCTURE"

\* ---- C24 ---------------------------------------------------------------
\* the dict still has only the keys it was passed in with
AsPassedIn(r) == r.validation_status = Absent /\ r.notes = <<>> /\ r.validated = FALSE

\* C24: validate_kpi_data leaves every record of its input list as it was
\* passed in, and every entry of the report is a dict of its own, never a
\* dict of the input list.
C24_InputUntouched ==
    /\ \A i \in Inputs : AsPassedIn(extracted_kpis[i])
    /\ \A k \in 1..Len(validated_kpis) : validated_kpis[k].ref = 0

\* ---- C29 ---------------------------------------------------------------
\* C29: when validate_kpi_data returns, on any of its return paths, the
\* report has exactly one entry for each input record: no record is dropped
\* and none is reported twice.
C29_OneEntryEach ==
    pc = "done" =>
        /\ Len(validated_kpis) = Len(extracted_kpis)
        /\ \A i \in Inputs :
              StructurallyValid(i) => Len(EntriesOf(i)) = 1
        /\ LET invalid == SelectSeq(Positions(extracted_kpis), LAMBDA i : ~StructurallyValid(i))
               fresh == SelectSeq(Positions(validated_kpis), LAMBDA k : validated_kpis[k].ref = 0)
           IN  /\ Len(fresh) = Len(invalid)
               /\ \A n \in 1..Len(fresh) :
                     SameInput(validated_kpis[fresh[n]].rec, extracted_kpis[invalid[n]])

\* the three return paths, each with two input records
C29_WitnessEarly ==
    /\ pc = "done" /\ ~fileOpened /\ Len(extracted_kpis) = 2

C29_WitnessLoadError ==
    /\ pc = "done" /\ fileOpened /\ ~disk_file.loadable /\ Len(extracted_kpis) = 2

\* a normal completion with an invalid record and two outcomes of Tier 2
C29_Witness ==
    /\ pc = "done"
    /\ fileOpened
    /\ disk_file.loadable
    /\ Len(extracted_kpis) = 2
    /\ Len(validated_kpis) = 2
    /\ Report(1).validation_status # Report(2).validation_status
    /\ Report(1).validation_status # "INVALID_STRUCTURE"
    /\ Report(2).validation_status # "INVALID_STRUCTURE"

\* ---- C30 ---------------------------------------------------------------
\* C30: in every report validate_kpi_data returns, a record has
\* validated = true exactly when its status is Valid, and an empty notes
\* list exactly when its status is Valid.
C30_FlagsAgree ==
    pc = "done" =>
        \A k \in 1..Len(validated_kpis) :
            /\ Report(k).validated <=> Report(k).validation_status = "Valid"
            /\ Report(k).notes = <<>> <=> Report(k).validation_status = "Valid"

\* a report with a Valid record next to a record Tier 2 rejected
C30_Witness ==
    /\ pc = "done"
    /\ \E k \in 1..Len(validated_kpis) :
          Report(k).validation_status = "Valid" /\ Report(k).validated
    /\ \E k \in 1..Len(validated_kpis) :
          /\ Report(k).validation_status \in {"VALUE_MISMATCH", "VALUE_MISSING_IN_SOURCE"}
          /\ Report(k).notes # <<>>

\* ---- C27 ---------------------------------------------------------------
\* C27: in the rendering of every chunk the index shown for a row is the
\* position of that row in its own table, chunk start plus position inside
\* the chunk, and chunk_row_offsets has one entry for each chunk, the index
\* of the chunk's first row.
C27_SourceRelativeIndex ==
    pc = "llm_extract" =>
        /\ Len(chunk_row_offsets) = Len(table_chunks)
        /\ \A c \in 1..Len(table_chunks) :
              LET chunk == table_chunks[c] IN
              /\ chunk.index # <<>>
              /\ chunk_row_offsets[c] = chunk.index[1]
              /\ \A p \in 1..Len(chunk.index) :
                    /\ chunk.index[p] = chunk_row_offsets[c] + (p - 1)
                    /\ chunk.rows[p] = dfs[chunk.df].rows[chunk.index[p] + 1]

\* a chunk that does not start its table and shows more than one row
C27_Witness ==
    /\ pc = "llm_extract"
    /\ \E c \in 1..Len(table_chunks) :
          /\ chunk_row_offsets[c] > 0
          /\ Len(table_chunks[c].index) >= 2
          /\ table_chunks[c].df = 2

\* ---- C21 ---------------------------------------------------------------
\* current_file_index stays inside 0..len(file_paths)
IndexInRange == current_file_index \in 0..Len(file_paths)

\* the run is at END with every path processed once, in list order
CoordinatorDone ==
    /\ pc = "end"
    /\ processed = file_paths
    /\ current_file_index = Len(file_paths)

\* C21: for every finite list of discovered files, the empty list included,
\* the loop of get_excel_files, convert_and_process_file and should_continue
\* eventually reaches END with every path of file_paths processed exactly
\* once in list order and current_file_index = len(file_paths), and
\* current_file_index never leaves 0..len(file_paths).
C21_CoordinatorTerminates ==
    /\ []IndexInRange
    /\ (pc = "get_excel_files") ~> CoordinatorDone

\* ---- C22 ---------------------------------------------------------------
\* the file at position i of file_paths could not be opened or read back
FileFails(i) ==
    LET f == folder[file_paths[i].pos] IN
    \/ ~f.loads
    \/ \E j \in 1..Len(f.sheets) : ReadRaises(f.sheets[j])

\* C22: a file that cannot be opened, parsed or read back never aborts the
\* batch: once the coordinator has been at such a file, no exception has
\* escaped, current_file_index has moved past the file and the records
\* accumulated from earlier files are still in extracted_data.
C22_FileFailureTolerated ==
    \A i \in 1..Len(file_paths) :
        (FileFails(i) /\ (current_file_index >= i \/ pc \in {"failed", "end"})) =>
            /\ raised = "none"
            /\ pc # "failed"
            /\ current_file_index >= i
            /\ Len(processed) >= i

\* ---- C25 ---------------------------------------------------------------
\* the reply records of the files processed so far whose name is a target
\* KPI up to letter case and whose value is present
MatchingReplies ==
    UNION { UNION { {f.sheets[j].reply[n] : n \in {m \in 1..Len(f.sheets[j].reply) :
                        LET rec == f.sheets[j].reply[m] IN
                        /\ IsStr(rec.kpi)
                        /\ rec.kpi.s # <<>>
                        /\ rec.value # None
                        /\ InTargetsLower(rec.kpi.s, agent_kpis)}}
                    : j \in {u \in 1..Len(f.sheets) : f.sheets[u].csv_exists /\ f.sheets[u].csv_readable} }
            : f \in {folder[processed[i].pos] : i \in 1..Len(processed)} }

\* C25: in every coordinator variant, a reply record whose name differs
\* from a target KPI only in letter case is accepted and accumulated in
\* extracted_data.
C25_CaseInsensitiveTargets ==
    \A rec \in MatchingReplies :
        \E k \in 1..Len(extracted_data) :
            /\ extracted_data[k].kpi = rec.kpi
            /\ extracted_data[k].value = rec.value

\* ---- C26 ---------------------------------------------------------------
\* the process was started with an unrecoverable configuration error
ConfigError == ~config.csv_dir_is_dir \/ target_kpis = <<>> \/ ~config.api_key

\* C26: a run started without credentials, with an empty target KPI list
\* or on a directory that does not exist is aborted before any processing:
\* it never loads an input file, builds a chunk or calls the LLM.
C26_AbortBeforeProcessing ==
    ConfigError =>
        /\ dfs = <<>>
        /\ table_chunks = <<>>
        /\ llm_msgs = <<>>
        /\ pc \in {"main", "exit"}

\* ---- C28 ---------------------------------------------------------------
\* C28: normalization is idempotent: when a table that is the result of
\* normalization is read back with its header as first row and normalized
\* again, the result has the same header and the same data rows, and no
\* further row or column is dropped.
C28_NormalizeIdempotent ==
    pc = "converted_again" =>
        /\ ReadBack(csv_file) = workbook_sheet
        /\ Filtered(workbook_sheet) = workbook_sheet.grid
        /\ DropBlankRows(workbook_sheet.grid) = workbook_sheet.grid
        /\ DropBlankCols(workbook_sheet.grid) = workbook_sheet.grid

\* a second pass over a table from which the first pass had dropped a
\* hidden row or column and a blank row or column, leaving a header and data
C28_Witness ==
    /\ pc = "converted_again"
    /\ Len(csv_file) >= 2
    /\ Len(csv_file[1]) >= 2
    /\ \E j \in 1..Len(csv_file[1]) : csv_file[1][j] = <<>>
    /\ \E i \in 2..Len(csv_file) : \E j \in 1..Len(csv_file[i]) : csv_file[i][j] = <<>>

====
